---- MODULE Spec2Model ----
(***************************************************************************)
(* Model of the chart-engine pipeline:                                     *)
(*   processPieData -> resolveGeometry (computePieGeometry +               *)
(*   computeLabelGeometry) -> resolveSceneGraph (buildPieSceneGraph +      *)
(*   transform overrides) -> resolveAllStyles (resolveNodeStyle).          *)
(*                                                                         *)
(* Conventions of the model                                                *)
(*  - A JavaScript string that the code inspects character by character    *)
(*    (labels, ids) is a sequence of one-character strings.                *)
(*  - A JavaScript number is an exact rational [n, d] in lowest terms      *)
(*    (d > 0); IEEE rounding, NaN and Infinity are outside the model.      *)
(*  - Angles are counted in units of pi radians, so Math.PI is 1.          *)
(*  - A JavaScript Map is a sequence of [k, v] entries in insertion order. *)
(***************************************************************************)
EXTENDS Integers, Sequences, FiniteSets, TLC

(***************************************************************************)
(* Bounds of the model                                                     *)
(***************************************************************************)
MaxRows == 3
MaxAnnotations == 2
\* largest reading of the millisecond clock
MaxClock == 2
\* largest number of entries of a converted map or record
MaxEntries == 2
\* largest number of conversions applied in a chain
MaxConversions == 2

(***************************************************************************)
(* Exact numbers                                                           *)
(***************************************************************************)
Abs(x) == IF x < 0 THEN -x ELSE x

RECURSIVE Gcd(_, _)
Gcd(a, b) == IF b = 0 THEN a ELSE Gcd(b, a % b)

Norm(n, d) ==
    LET g == Gcd(Abs(n), Abs(d))
        s == IF d < 0 THEN -1 ELSE 1
    IN  [n |-> (s * n) \div g, d |-> (s * d) \div g]

Num(i) == [n |-> i, d |-> 1]
FAdd(a, b) == Norm(a.n * b.d + b.n * a.d, a.d * b.d)
FSub(a, b) == Norm(a.n * b.d - b.n * a.d, a.d * b.d)
FMul(a, b) == Norm(a.n * b.n, a.d * b.d)
FDiv(a, b) == Norm(a.n * b.d, a.d * b.n)
FLess(a, b) == a.n * b.d < b.n * a.d
FLeq(a, b) == a.n * b.d <= b.n * a.d
Zero == Num(0)
Hundred == Num(100)

RECURSIVE FSum(_)
FSum(s) == IF s = <<>> THEN Zero ELSE FAdd(Head(s), FSum(Tail(s)))

(***************************************************************************)
(* JavaScript Map: entries in insertion order; set() on a present key      *)
(* replaces the value and keeps the entry's position.                      *)
(***************************************************************************)
MapKeys(m) == [i \in 1..Len(m) |-> m[i].k]
MapValues(m) == [i \in 1..Len(m) |-> m[i].v]
MapHas(m, key) == \E i \in 1..Len(m) : m[i].k = key
MapGet(m, key) == m[CHOOSE i \in 1..Len(m) : m[i].k = key].v
MapSet(m, key, val) ==
    IF MapHas(m, key)
    THEN [i \in 1..Len(m) |-> IF m[i].k = key THEN [k |-> key, v |-> val] ELSE m[i]]
    ELSE Append(m, [k |-> key, v |-> val])
EmptyMap == <<>>

SeqToSet(s) == {s[i] : i \in 1..Len(s)}

(***************************************************************************)
(* Strings as character sequences                                          *)
(***************************************************************************)
LowerOf(c) ==
    CASE c = "A" -> "a"
      [] c = "B" -> "b"
      [] c = "C" -> "c"
      [] c = "U" -> "u"
      [] OTHER -> c

IsAlnum(c) == c \in {"a", "b", "c", "d", "e", "g", "h", "i", "k", "l", "n",
                      "o", "p", "r", "s", "t", "u", "w", "y",
                      "0", "1", "2", "3", "4", "5", "6", "7", "8", "9"}


ToLowerCase(s) == [i \in 1..Len(s) |-> LowerOf(s[i])]

\* label.trim() === ''
IsBlank(s) == \A i \in 1..Len(s) : s[i] = " "

\* .replace(/[^a-z0-9]+/g, '-')
RECURSIVE CollapseNonAlnum(_)
CollapseNonAlnum(s) ==
    IF s = <<>> THEN <<>>
    ELSE IF IsAlnum(Head(s)) THEN <<Head(s)>> \o CollapseNonAlnum(Tail(s))
    ELSE IF Len(s) > 1 /\ ~IsAlnum(s[2]) THEN CollapseNonAlnum(Tail(s))
    ELSE <<"-">> \o CollapseNonAlnum(Tail(s))

\* .replace(/^-|-$/g, '')
TrimHyphens(s) ==
    LET a == IF s # <<>> /\ Head(s) = "-" THEN Tail(s) ELSE s
    IN  IF a # <<>> /\ a[Len(a)] = "-" THEN SubSeq(a, 1, Len(a) - 1) ELSE a

Digit(i) == CASE i = 0 -> "0" [] i = 1 -> "1" [] i = 2 -> "2" [] i = 3 -> "3"
              [] i = 4 -> "4" [] i = 5 -> "5" [] i = 6 -> "6" [] i = 7 -> "7"
              [] i = 8 -> "8" [] i = 9 -> "9"

\* `${index}` for a non-negative integer
RECURSIVE NatToStr(_)
NatToStr(i) == IF i < 10 THEN <<Digit(i)>> ELSE NatToStr(i \div 10) \o <<Digit(i % 10)>>

SlicePrefix == <<"s", "l", "i", "c", "e", "-">>

generateSliceId(label, index) ==
    IF label = <<>> \/ IsBlank(label)
    THEN SlicePrefix \o NatToStr(index)
    ELSE LET normalized == TrimHyphens(CollapseNonAlnum(ToLowerCase(label)))
         IN  IF normalized = <<>> THEN SlicePrefix \o NatToStr(index)
             ELSE SlicePrefix \o normalized

(***************************************************************************)
(* Data processor                                                          *)
(***************************************************************************)
RECURSIVE FMin(_)
FMin(s) == IF Len(s) = 1 THEN s[1]
           ELSE LET r == FMin(Tail(s)) IN IF FLess(r, Head(s)) THEN r ELSE Head(s)

RECURSIVE FMax(_)
FMax(s) == IF Len(s) = 1 THEN s[1]
           ELSE LET r == FMax(Tail(s)) IN IF FLess(Head(s), r) THEN r ELSE Head(s)

\* the outcome of a call that raises a TypeError instead of returning
Thrown == [threw |-> "TypeError"]

\* aggregationFunctions[method] ?? aggregationFunctions.sum, then fn(values).
\* aggregationFunctions is an object literal, so a lookup also finds the properties
\* inherited from Object.prototype: '__proto__' yields Object.prototype itself, which
\* is not nullish and not callable, and 'hasOwnProperty' is callable but raises when
\* called without a receiver; in both cases fn(values) raises a TypeError.
\* (Other inherited names, such as 'constructor' and 'toString', return a value that
\* is not a number; they are outside the method names of the model.)
aggregate(values, method) ==
    CASE method = "sum" -> FSum(values)
      [] method = "avg" -> IF Len(values) > 0 THEN FDiv(FSum(values), Num(Len(values))) ELSE Zero
      [] method = "min" -> IF Len(values) > 0 THEN FMin(values) ELSE Zero
      [] method = "max" -> IF Len(values) > 0 THEN FMax(values) ELSE Zero
      [] method = "count" -> Num(Len(values))
      [] method \in {"__proto__", "hasOwnProperty"} -> Thrown
      [] OTHER -> FSum(values)

\* computePercentages without the equal-share branch for a zero total
computePercentages_ZeroShares(values) ==
    LET total == FSum(values)
    IN  IF total = Zero
        THEN [i \in 1..Len(values) |-> Zero]
        ELSE [i \in 1..Len(values) |-> FMul(FDiv(values[i], total), Hundred)]

computePercentages(values) ==
    LET total == FSum(values)
    IN  IF total = Zero
        THEN LET equalShare == IF Len(values) > 0 THEN FDiv(Hundred, Num(Len(values))) ELSE Zero
             IN  [i \in 1..Len(values) |-> equalShare]
        ELSE [i \in 1..Len(values) |-> FMul(FDiv(values[i], total), Hundred)]


\* String(row[categoryField] ?? 'Unknown')
CategoryValue(row) == IF row.cat.k = "str" THEN row.cat.s ELSE <<"U", "n", "k", "n", "o", "w", "n">>

\* Number(row[valueField] ?? 0), NaN replaced by 0
NumericValue(row) == IF row.val.k = "num" THEN Num(row.val.n) ELSE Zero

\* the grouping loop leaving out the rows whose category is missing or null
RECURSIVE GroupRows_SkipsNullCategory(_, _, _)
GroupRows_SkipsNullCategory(rs, index, groups) ==
    IF index >= Len(rs) THEN groups
    ELSE LET row == rs[index + 1]
             categoryValue == CategoryValue(row)
             g0 == IF MapHas(groups, categoryValue) THEN groups
                   ELSE MapSet(groups, categoryValue, [values |-> <<>>, rowIndices |-> <<>>])
             group == MapGet(g0, categoryValue)
             g1 == MapSet(g0, categoryValue,
                          [values |-> Append(group.values, NumericValue(row)),
                           rowIndices |-> Append(group.rowIndices, index)])
         IN  GroupRows_SkipsNullCategory(rs, index + 1, IF row.cat.k = "str" THEN g1 ELSE groups)

\* groups: Map<label, {values, rowIndices}> filled in row order (row indices are 0-based)
RECURSIVE GroupRows(_, _, _)
GroupRows(rs, index, groups) ==
    IF index >= Len(rs) THEN groups
    ELSE LET row == rs[index + 1]
             categoryValue == CategoryValue(row)
             g0 == IF MapHas(groups, categoryValue) THEN groups
                   ELSE MapSet(groups, categoryValue, [values |-> <<>>, rowIndices |-> <<>>])
             group == MapGet(g0, categoryValue)
             g1 == MapSet(g0, categoryValue,
                          [values |-> Append(group.values, NumericValue(row)),
                           rowIndices |-> Append(group.rowIndices, index)])
         IN  GroupRows(rs, index + 1, g1)

\* an unstable sort: an element is placed in front of the elements equal to it
RECURSIVE InsertByValueDesc_Unstable(_, _)
InsertByValueDesc_Unstable(sorted, x) ==
    IF sorted = <<>> THEN <<x>>
    ELSE IF FLeq(Head(sorted).rawValue, x.rawValue)
         THEN <<x>> \o sorted
         ELSE <<Head(sorted)>> \o InsertByValueDesc_Unstable(Tail(sorted), x)

\* Array.prototype.sort with comparator (a, b) => b.rawValue - a.rawValue (stable)
RECURSIVE InsertByValueDesc(_, _)
InsertByValueDesc(sorted, x) ==
    IF sorted = <<>> THEN <<x>>
    ELSE IF FLess(Head(sorted).rawValue, x.rawValue)
         THEN <<x>> \o sorted
         ELSE <<Head(sorted)>> \o InsertByValueDesc(Tail(sorted), x)

RECURSIVE SortByValueDesc(_)
SortByValueDesc(s) ==
    IF s = <<>> THEN <<>>
    ELSE InsertByValueDesc(SortByValueDesc(SubSeq(s, 1, Len(s) - 1)), s[Len(s)])

processPieData(rs, aggregationMethod) ==
    LET groups == GroupRows(rs, 0, EmptyMap)
        rawSlices == [i \in 1..Len(groups) |->
                         [label |-> groups[i].k,
                          rawValue |-> aggregate(groups[i].v.values, aggregationMethod),
                          rowIndices |-> groups[i].v.rowIndices]]
        sortedSlices == SortByValueDesc(rawSlices)
        values == [i \in 1..Len(sortedSlices) |-> sortedSlices[i].rawValue]
        percentages == computePercentages(values)
    IN  IF \E i \in 1..Len(rawSlices) : "threw" \in DOMAIN rawSlices[i].rawValue
        THEN Thrown
        ELSE [slices |-> [i \in 1..Len(sortedSlices) |->
                             [sliceId |-> generateSliceId(sortedSlices[i].label, i - 1),
                              label |-> sortedSlices[i].label,
                              rawValue |-> sortedSlices[i].rawValue,
                              percentage |-> percentages[i],
                              originalRowIndices |-> sortedSlices[i].rowIndices]],
              total |-> FSum(values)]

(***************************************************************************)
(* Optional fields: a record that lacks a field is a function whose domain *)
(* lacks it; `rec?.f ?? dflt`                                              *)
(***************************************************************************)
NoRecord == <<>>
Has(rec, f) == f \in DOMAIN rec
Opt(rec, f, dflt) == IF f \in DOMAIN rec THEN rec[f] ELSE dflt
\* map.get(key), undefined rendered as the record without fields
MapGetOpt(m, key) == IF MapHas(m, key) THEN MapGet(m, key) ELSE NoRecord
\* { ...a, ...b }
Spread(a, b) == [f \in (DOMAIN a) \cup (DOMAIN b) |-> IF f \in DOMAIN b THEN b[f] ELSE a[f]]

(***************************************************************************)
(* Geometry engine.  A point or vector is kept in closed form:             *)
(*   x = x0 + SUM r*cos(a*pi),  y = y0 + SUM r*sin(a*pi)                   *)
(* over the terms [r, a] of `polar` (terms with r = 0 are dropped).        *)
(***************************************************************************)
Pt(x, y) == [x |-> x, y |-> y, polar |-> <<>>]
PolarTerm(r, a) == IF r = Zero THEN <<>> ELSE <<[r |-> r, a |-> a]>>
PtAdd(p, q) == [x |-> FAdd(p.x, q.x), y |-> FAdd(p.y, q.y), polar |-> p.polar \o q.polar]

\* x: cx + r*cos(angle), y: cy + r*sin(angle)
polarToCartesian(center, radius, angle) ==
    [x |-> center.x, y |-> center.y, polar |-> center.polar \o PolarTerm(radius, angle)]

\* a threshold of a full turn in place of a half turn
MathPI_FullTurn == Num(2)

MathPI == Num(1)
Two == Num(2)

\* createArcPath that keeps a path whose padded span is exactly 0
createArcPath_StrictCollapse(center, innerRadius, outerRadius, startAngle, endAngle, padAngle) ==
    LET actualStart == FAdd(startAngle, FDiv(padAngle, Two))
        actualEnd == FSub(endAngle, FDiv(padAngle, Two))
        p1 == polarToCartesian(center, outerRadius, actualStart)
        p2 == polarToCartesian(center, outerRadius, actualEnd)
    IN  IF FLess(actualEnd, actualStart) THEN <<>>
        ELSE << [c |-> "M", p |-> center],
                [c |-> "L", p |-> p1],
                [c |-> "A", r |-> outerRadius, large |-> "0", sweep |-> "1", p |-> p2],
                [c |-> "Z"] >>

createArcPath(center, innerRadius, outerRadius, startAngle, endAngle, padAngle) ==
    LET actualStart == FAdd(startAngle, FDiv(padAngle, Two))
        actualEnd == FSub(endAngle, FDiv(padAngle, Two))
        largeArcFlag == IF FLeq(FSub(actualEnd, actualStart), MathPI) THEN "0" ELSE "1"
        p1 == polarToCartesian(center, outerRadius, actualStart)
        p2 == polarToCartesian(center, outerRadius, actualEnd)
        p3 == polarToCartesian(center, innerRadius, actualEnd)
        p4 == polarToCartesian(center, innerRadius, actualStart)
    IN  IF FLeq(actualEnd, actualStart) THEN <<>>
        ELSE IF FLeq(innerRadius, Zero)
        THEN << [c |-> "M", p |-> center],
                [c |-> "L", p |-> p1],
                [c |-> "A", r |-> outerRadius, large |-> largeArcFlag, sweep |-> "1", p |-> p2],
                [c |-> "Z"] >>
        ELSE << [c |-> "M", p |-> p1],
                [c |-> "A", r |-> outerRadius, large |-> largeArcFlag, sweep |-> "1", p |-> p2],
                [c |-> "L", p |-> p3],
                [c |-> "A", r |-> innerRadius, large |-> largeArcFlag, sweep |-> "0", p |-> p4],
                [c |-> "Z"] >>

\* the slice geometry with `||` in place of `??`: an override radius of 0 counts as absent
SliceGeometryAt_ZeroIsAbsent(slice, currentAngle, config, ovr) ==
    LET sliceOverride == MapGetOpt(ovr.slices, slice.sliceId)
        totalRange == FSub(config.endAngle, config.startAngle)
        sliceAngleSpan == FMul(FDiv(slice.percentage, Hundred), totalRange)
        startAngle == currentAngle
        endAngle == FAdd(currentAngle, sliceAngleSpan)
        midAngle == FAdd(startAngle, FDiv(sliceAngleSpan, Two))
        innerRadius == IF Opt(sliceOverride, "innerRadius", Zero) # Zero
                       THEN sliceOverride["innerRadius"] ELSE config.innerRadius
        baseOuterRadius == Opt(sliceOverride, "outerRadius", config.outerRadius)
        outerRadius == FAdd(baseOuterRadius, Opt(sliceOverride, "outerRadiusOffset", Zero))
        explodeAmount == Opt(sliceOverride, "explodeAmount", Zero)
        explodeOffset == [x |-> Zero, y |-> Zero, polar |-> PolarTerm(explodeAmount, midAngle)]
        effectiveCenter == PtAdd(config.center, explodeOffset)
    IN  [sliceId |-> slice.sliceId,
         startAngle |-> startAngle,
         endAngle |-> endAngle,
         midAngle |-> midAngle,
         innerRadius |-> innerRadius,
         outerRadius |-> outerRadius,
         center |-> config.center,
         centroid |-> polarToCartesian(effectiveCenter, FDiv(FAdd(innerRadius, outerRadius), Two), midAngle),
         outerEdgePoint |-> polarToCartesian(effectiveCenter, outerRadius, midAngle),
         innerEdgePoint |-> polarToCartesian(effectiveCenter, innerRadius, midAngle),
         explodeOffset |-> explodeOffset,
         pathData |-> createArcPath(effectiveCenter, innerRadius, outerRadius,
                                    startAngle, endAngle, config.padAngle)]

\* body of the forEach callback of computePieGeometry for one processed slice
SliceGeometryAt(slice, currentAngle, config, ovr) ==
    LET sliceOverride == MapGetOpt(ovr.slices, slice.sliceId)
        totalRange == FSub(config.endAngle, config.startAngle)
        sliceAngleSpan == FMul(FDiv(slice.percentage, Hundred), totalRange)
        startAngle == currentAngle
        endAngle == FAdd(currentAngle, sliceAngleSpan)
        midAngle == FAdd(startAngle, FDiv(sliceAngleSpan, Two))
        innerRadius == Opt(sliceOverride, "innerRadius", config.innerRadius)
        baseOuterRadius == Opt(sliceOverride, "outerRadius", config.outerRadius)
        outerRadius == FAdd(baseOuterRadius, Opt(sliceOverride, "outerRadiusOffset", Zero))
        explodeAmount == Opt(sliceOverride, "explodeAmount", Zero)
        explodeOffset == [x |-> Zero, y |-> Zero, polar |-> PolarTerm(explodeAmount, midAngle)]
        effectiveCenter == PtAdd(config.center, explodeOffset)
    IN  [sliceId |-> slice.sliceId,
         startAngle |-> startAngle,
         endAngle |-> endAngle,
         midAngle |-> midAngle,
         innerRadius |-> innerRadius,
         outerRadius |-> outerRadius,
         center |-> config.center,
         centroid |-> polarToCartesian(effectiveCenter, FDiv(FAdd(innerRadius, outerRadius), Two), midAngle),
         outerEdgePoint |-> polarToCartesian(effectiveCenter, outerRadius, midAngle),
         innerEdgePoint |-> polarToCartesian(effectiveCenter, innerRadius, midAngle),
         explodeOffset |-> explodeOffset,
         pathData |-> createArcPath(effectiveCenter, innerRadius, outerRadius,
                                    startAngle, endAngle, config.padAngle)]

\* the loop without `currentAngle = endAngle`: every slice starts at config.startAngle
RECURSIVE GeometrySlices_NoAdvance(_, _, _, _, _, _)
GeometrySlices_NoAdvance(processedSlices, i, currentAngle, geometrySlices, config, ovr) ==
    IF i > Len(processedSlices) THEN geometrySlices
    ELSE LET g == SliceGeometryAt(processedSlices[i], currentAngle, config, ovr)
         IN  GeometrySlices_NoAdvance(processedSlices, i + 1, currentAngle,
                                      MapSet(geometrySlices, g.sliceId, g), config, ovr)

\* processedSlices.forEach(...): geometrySlices.set(sliceId, ...); currentAngle = endAngle
RECURSIVE GeometrySlices(_, _, _, _, _, _)
GeometrySlices(processedSlices, i, currentAngle, geometrySlices, config, ovr) ==
    IF i > Len(processedSlices) THEN geometrySlices
    ELSE LET g == SliceGeometryAt(processedSlices[i], currentAngle, config, ovr)
         IN  GeometrySlices(processedSlices, i + 1, g.endAngle,
                            MapSet(geometrySlices, g.sliceId, g), config, ovr)

computePieGeometry(data, config, ovr, dateNow) ==
    [config |-> config,
     slices |-> GeometrySlices(data.slices, 1, config.startAngle, EmptyMap, config, ovr),
     labels |-> <<>>,
     leaderLines |-> <<>>,
     annotations |-> <<>>,
     overrides |-> ovr,
     lastUpdated |-> dateNow]

(***************************************************************************)
(* Label and leader-line placer                                            *)
(***************************************************************************)
LabelSuffix == <<"-", "l", "a", "b", "e", "l", "-">>

\* Math.cos(a * pi) >= 0
CosNonNeg(a) ==
    LET m == a.n % (2 * a.d)
    IN  2 * m <= a.d \/ 2 * m >= 3 * a.d

\* body of the forEach callback of computeLabelGeometry for one slice geometry
LabelAt(slice, sliceId, config, ovr) ==
    LET labelIndex == 0
        labelId == sliceId \o LabelSuffix \o NatToStr(labelIndex)
        override == MapGetOpt(ovr.labels, labelId)
        anchorMode == Opt(override, "anchorMode", config.labelAnchorMode)
        center == PtAdd(slice.center, slice.explodeOffset)
        anchorPoint == IF anchorMode = "centroid" THEN slice.centroid
                       ELSE IF anchorMode = "edge" THEN slice.outerEdgePoint
                       ELSE polarToCartesian(center,
                                FAdd(slice.outerRadius, config.labelRadiusOffset), slice.midAngle)
        offset == Opt(override, "positionOffset", Pt(Zero, Zero))
        finalPoint == PtAdd(anchorPoint, offset)
    IN  [sliceId |-> sliceId,
         labelIndex |-> labelIndex,
         labelId |-> labelId,
         anchorPoint |-> finalPoint,
         anchorMode |-> anchorMode,
         offset |-> offset,
         side |-> IF CosNonNeg(slice.midAngle) THEN "right" ELSE "left",
         boundingBox |-> [p |-> finalPoint, width |-> 60, height |-> 20],
         isManuallyPositioned |-> Opt(override, "isManuallyPositioned", FALSE)]

LeaderLineAt(slice, label) ==
    [sliceId |-> label.sliceId,
     labelIndex |-> label.labelIndex,
     startPoint |-> slice.outerEdgePoint,
     endPoint |-> label.anchorPoint,
     pathData |-> << [c |-> "M", p |-> slice.outerEdgePoint], [c |-> "L", p |-> label.anchorPoint] >>]

\* the label loop drawing a leader line for every label that is not at the centroid
RECURSIVE LabelLoop_LineUnlessCentroid(_, _, _, _, _)
LabelLoop_LineUnlessCentroid(slices, i, acc, config, ovr) ==
    IF i > Len(slices) THEN acc
    ELSE LET label == LabelAt(slices[i].v, slices[i].k, config, ovr)
         IN  LabelLoop_LineUnlessCentroid(slices, i + 1,
                 [labels |-> Append(acc.labels, label),
                  leaderLines |-> IF label.anchorMode # "centroid"
                                  THEN Append(acc.leaderLines, LeaderLineAt(slices[i].v, label))
                                  ELSE acc.leaderLines],
                 config, ovr)

RECURSIVE LabelLoop(_, _, _, _, _)
LabelLoop(slices, i, acc, config, ovr) ==
    IF i > Len(slices) THEN acc
    ELSE LET label == LabelAt(slices[i].v, slices[i].k, config, ovr)
         IN  LabelLoop(slices, i + 1,
                 [labels |-> Append(acc.labels, label),
                  leaderLines |-> IF label.anchorMode = "outside"
                                  THEN Append(acc.leaderLines, LeaderLineAt(slices[i].v, label))
                                  ELSE acc.leaderLines],
                 config, ovr)

computeLabelGeometry(slices, config, ovr) ==
    LabelLoop(slices, 1, [labels |-> <<>>, leaderLines |-> <<>>], config, ovr)

resolveGeometry(data, config, ovr, dateNow) ==
    LET state == computePieGeometry(data, config, ovr, dateNow)
        lg == computeLabelGeometry(state.slices, config, ovr)
    IN  [state EXCEPT !.labels = lg.labels,
                      !.leaderLines = lg.leaderLines,
                      !.annotations = MapValues(ovr.annotations)]

(***************************************************************************)
(* Scene graph builder.  A node is                                         *)
(*   [id, type, parentId, children, dataId, transform, interactive]        *)
(* with parentId = NullId for null, dataId = <<>> when absent, transform   *)
(* a record over a subset of {x, y, scale, rotate} (no field: absent) and  *)
(* interactive "true" or "undefined".                                      *)
(***************************************************************************)
NullId == <<"null">>
NoDataId == <<>>
Undefined == "undefined"

ChartRootId == <<"c", "h", "a", "r", "t", "-", "r", "o", "o", "t">>
MainRingId == <<"m", "a", "i", "n", "-", "r", "i", "n", "g">>
LabelsLayerId == <<"l", "a", "b", "e", "l", "s", "-", "l", "a", "y", "e", "r">>
CenterContainerId == <<"c", "e", "n", "t", "e", "r", "-", "c", "o", "n", "t", "a", "i", "n", "e", "r">>
CenterContentId == <<"c", "e", "n", "t", "e", "r", "-", "c", "o", "n", "t", "e", "n", "t">>
AnnotationsLayerId == <<"a", "n", "n", "o", "t", "a", "t", "i", "o", "n", "s", "-", "l", "a", "y", "e", "r">>
GroupSuffix == <<"-", "g", "r", "o", "u", "p">>
ArcSuffix == <<"-", "a", "r", "c">>
PctSuffix == <<"-", "p", "c", "t">>

\* a slice group without its percentage-label child
SliceGroupNode_NoPct(sliceId) ==
    LET sliceGroupId == sliceId \o GroupSuffix
    IN  [id |-> sliceGroupId, type |-> "SLICE_GROUP", parentId |-> MainRingId,
         children |-> << [id |-> sliceId \o ArcSuffix, type |-> "ARC", parentId |-> sliceGroupId,
                          children |-> <<>>, dataId |-> sliceId, transform |-> NoRecord,
                          interactive |-> Undefined] >>,
         dataId |-> sliceId, transform |-> NoRecord, interactive |-> "true"]

SliceGroupNode(sliceId) ==
    LET sliceGroupId == sliceId \o GroupSuffix
    IN  [id |-> sliceGroupId, type |-> "SLICE_GROUP", parentId |-> MainRingId,
         children |-> << [id |-> sliceId \o ArcSuffix, type |-> "ARC", parentId |-> sliceGroupId,
                          children |-> <<>>, dataId |-> sliceId, transform |-> NoRecord,
                          interactive |-> Undefined],
                         [id |-> sliceId \o PctSuffix, type |-> "PERCENTAGE_LABEL",
                          parentId |-> sliceGroupId, children |-> <<>>, dataId |-> sliceId,
                          transform |-> NoRecord, interactive |-> "true"] >>,
         dataId |-> sliceId, transform |-> NoRecord, interactive |-> "true"]

LabelNode(labelGeo) ==
    [id |-> labelGeo.labelId, type |-> "LABEL", parentId |-> LabelsLayerId, children |-> <<>>,
     dataId |-> labelGeo.sliceId, transform |-> NoRecord, interactive |-> "true"]

LeaderLineNode(lineGeo) ==
    [id |-> <<"l", "e", "a", "d", "e", "r", "-", "l", "i", "n", "e", "-">>
            \o lineGeo.sliceId \o <<"-">> \o NatToStr(lineGeo.labelIndex),
     type |-> "LEADER_LINE", parentId |-> LabelsLayerId, children |-> <<>>,
     dataId |-> lineGeo.sliceId, transform |-> NoRecord, interactive |-> Undefined]

\* an annotation leaf that ignores the annotation's type tag
AnnotationNode_AlwaysCircle(anno) ==
    [id |-> anno.id, type |-> "CIRCLE", parentId |-> AnnotationsLayerId, children |-> <<>>,
     dataId |-> NoDataId, transform |-> [x |-> anno.x, y |-> anno.y], interactive |-> "true"]

AnnotationNode(anno) ==
    [id |-> anno.id, type |-> anno.type, parentId |-> AnnotationsLayerId, children |-> <<>>,
     dataId |-> NoDataId, transform |-> [x |-> anno.x, y |-> anno.y], interactive |-> "true"]

buildPieSceneGraph(geometry) ==
    LET ring == [id |-> MainRingId, type |-> "RING", parentId |-> ChartRootId,
                 children |-> [i \in 1..Len(geometry.slices) |-> SliceGroupNode(geometry.slices[i].k)],
                 dataId |-> NoDataId, transform |-> NoRecord, interactive |-> Undefined]
        labelLayer == [id |-> LabelsLayerId, type |-> "ROOT", parentId |-> ChartRootId,
                       children |-> [i \in 1..Len(geometry.labels) |-> LabelNode(geometry.labels[i])]
                                 \o [i \in 1..Len(geometry.leaderLines) |->
                                         LeaderLineNode(geometry.leaderLines[i])],
                       dataId |-> NoDataId, transform |-> NoRecord, interactive |-> Undefined]
        centerNodes == IF FLess(Zero, geometry.config.innerRadius)
                       THEN << [id |-> CenterContainerId, type |-> "CENTER_CONTAINER",
                                parentId |-> ChartRootId,
                                children |-> << [id |-> CenterContentId, type |-> "CENTER_CONTENT",
                                                 parentId |-> CenterContainerId, children |-> <<>>,
                                                 dataId |-> NoDataId, transform |-> NoRecord,
                                                 interactive |-> Undefined] >>,
                                dataId |-> NoDataId, transform |-> NoRecord,
                                interactive |-> Undefined] >>
                       ELSE <<>>
        annotationNodes == IF Len(geometry.annotations) > 0
                           THEN << [id |-> AnnotationsLayerId, type |-> "ANNOTATION_ROOT",
                                    parentId |-> ChartRootId,
                                    children |-> [i \in 1..Len(geometry.annotations) |->
                                                     AnnotationNode(geometry.annotations[i])],
                                    dataId |-> NoDataId, transform |-> NoRecord,
                                    interactive |-> Undefined] >>
                           ELSE <<>>
    IN  [id |-> ChartRootId, type |-> "ROOT", parentId |-> NullId,
         children |-> <<ring, labelLayer>> \o centerNodes \o annotationNodes,
         dataId |-> NoDataId,
         transform |-> [x |-> geometry.config.center.x, y |-> geometry.config.center.y],
         interactive |-> "true"]

\* traverse() replacing the node's transform by the override instead of merging
TransformOf_OverrideOnly(node, thm) ==
    IF MapHas(thm.nodeTransforms, node.id)
    THEN MapGet(thm.nodeTransforms, node.id)
    ELSE node.transform

\* the transform assigned to a node by traverse()
TransformOf(node, thm) ==
    IF MapHas(thm.nodeTransforms, node.id)
    THEN LET transformOverride == MapGet(thm.nodeTransforms, node.id)
             base == IF DOMAIN node.transform # {} THEN node.transform
                     ELSE [x |-> Zero, y |-> Zero, scale |-> Num(1), rotate |-> Zero]
             fs == {f \in {"x", "y", "scale", "rotate"} : Has(transformOverride, f) \/ Has(base, f)}
         IN  [f \in fs |-> Opt(transformOverride, f, Opt(base, f, Zero))]
    ELSE node.transform

\* the tree after traverse() has assigned every node's transform (nodes are shared
\* between the tree and the lookup map, so the map sees the assigned transforms)
RECURSIVE Transformed(_, _)
Transformed(node, thm) ==
    [node EXCEPT !.transform = TransformOf(node, thm),
                 !.children = [i \in 1..Len(node.children) |-> Transformed(node.children[i], thm)]]

\* nodes.set(node.id, node); node.children.forEach(traverse)
RECURSIVE Traverse(_, _)
RECURSIVE TraverseAll(_, _, _)
Traverse(node, nodes) == TraverseAll(node.children, 1, MapSet(nodes, node.id, node))
TraverseAll(children, i, nodes) ==
    IF i > Len(children) THEN nodes
    ELSE TraverseAll(children, i + 1, Traverse(children[i], nodes))

\* resolveSceneGraph that also turns the root by the clock reading
resolveSceneGraph_RotatesWithClock(geometry, thm, dateNow) ==
    LET root0 == Transformed(buildPieSceneGraph(geometry), thm)
        root == [root0 EXCEPT !.transform = Spread(@, [rotate |-> Num(dateNow)])]
    IN  [root |-> root, nodes |-> Traverse(root, EmptyMap), lastUpdated |-> dateNow]

resolveSceneGraph(geometry, thm, dateNow) ==
    LET root == Transformed(buildPieSceneGraph(geometry), thm)
    IN  [root |-> root, nodes |-> Traverse(root, EmptyMap), lastUpdated |-> dateNow]

(***************************************************************************)
(* Style resolver.  Style values are strings; a field that is absent from  *)
(* a NodeStyle is absent from the record's domain, and a field of the      *)
(* result whose value is undefined carries Undefined.                      *)
(***************************************************************************)
\* theme.primaryColors[sliceIndex % theme.primaryColors.length]
PaletteColor(thm, sliceIndex) ==
    IF Len(thm.primaryColors) = 0 THEN Undefined
    ELSE thm.primaryColors[(sliceIndex % Len(thm.primaryColors)) + 1]

BaseStyle(thm) ==
    [fill |-> "none", fillOpacity |-> "1", stroke |-> "none", strokeWidth |-> "0",
     opacity |-> "1", fontFamily |-> thm.defaultTypography.fontFamily,
     fontSize |-> thm.defaultTypography.fontSize,
     fontColor |-> thm.defaultTypography.fontColor, textAnchor |-> "middle"]

TypeDefaults(node, thm, sliceIndex) ==
    CASE node.type = "ARC" ->
            [fill |-> PaletteColor(thm, sliceIndex), stroke |-> "#FFFFFF", strokeWidth |-> "2",
             className |-> "hover:fill-opacity-80 cursor-pointer"]
      [] node.type = "LABEL" ->
            [fill |-> thm.defaultTypography.fontColor, fontSize |-> "14", fontWeight |-> "600",
             className |-> "select-none cursor-pointer hover:font-black"]
      [] node.type = "LEADER_LINE" -> [stroke |-> "#999999", strokeWidth |-> "1"]
      [] node.type = "CENTER_CONTAINER" -> [fill |-> "#FFFFFF"]
      [] node.type \in {"CIRCLE", "RECT"} ->
            [fill |-> "#E2E8F0", stroke |-> "#94A3B8", strokeWidth |-> "1"]
      [] node.type = "IMAGE" -> [opacity |-> "1"]
      [] node.type = "PERCENTAGE_LABEL" ->
            [fontColor |-> IF thm.backgroundColor = "#FFFFFF" THEN "#000000" ELSE "#FFFFFF",
             fontSize |-> "12", fontWeight |-> "900", textAnchor |-> "middle"]
      [] OTHER -> NoRecord

\* the style a node type gets before the theme override is merged
TypeBase(node, thm, sliceIndex) == Spread(BaseStyle(thm), TypeDefaults(node, thm, sliceIndex))

\* x ?? dflt on a field that may be absent
Coalesce(rec, f, dflt) == IF Has(rec, f) /\ rec[f] # Undefined THEN rec[f] ELSE dflt

\* resolveNodeStyle merging the type-based defaults over the theme override
resolveNodeStyle_BaseWins(node, thm, sliceIndex) ==
    LET base == TypeBase(node, thm, sliceIndex)
        override == MapGetOpt(thm.nodeOverrides, node.id)
        merged == Spread(override, base)
    IN  Spread(merged,
               [strokeDashArray |-> Coalesce(merged, "strokeDashArray", ""),
                fontWeight |-> Coalesce(merged, "fontWeight", "400"),
                iconName |-> Opt(merged, "iconName", Undefined),
                iconSize |-> Opt(merged, "iconSize", Undefined),
                iconColor |-> Opt(merged, "iconColor", Undefined),
                className |-> Opt(merged, "className", Undefined)])

resolveNodeStyle(node, thm, sliceIndex) ==
    LET base == TypeBase(node, thm, sliceIndex)
        override == MapGetOpt(thm.nodeOverrides, node.id)
        merged == Spread(base, override)
    IN  Spread(merged,
               [fill |-> Opt(merged, "fill", Undefined),
                fillOpacity |-> Opt(merged, "fillOpacity", Undefined),
                stroke |-> Opt(merged, "stroke", Undefined),
                strokeWidth |-> Opt(merged, "strokeWidth", Undefined),
                strokeDashArray |-> Coalesce(merged, "strokeDashArray", ""),
                opacity |-> Opt(merged, "opacity", Undefined),
                fontFamily |-> Opt(merged, "fontFamily", Undefined),
                fontSize |-> Opt(merged, "fontSize", Undefined),
                fontWeight |-> Coalesce(merged, "fontWeight", "400"),
                fontColor |-> Opt(merged, "fontColor", Undefined),
                textAnchor |-> Opt(merged, "textAnchor", Undefined),
                iconName |-> Opt(merged, "iconName", Undefined),
                iconSize |-> Opt(merged, "iconSize", Undefined),
                iconColor |-> Opt(merged, "iconColor", Undefined),
                className |-> Opt(merged, "className", Undefined)])

\* Array.from(new Set(ids)): first occurrences, in order
RECURSIVE Unique(_)
Unique(s) ==
    IF s = <<>> THEN <<>>
    ELSE LET u == Unique(SubSeq(s, 1, Len(s) - 1))
         IN  IF s[Len(s)] \in SeqToSet(u) THEN u ELSE Append(u, s[Len(s)])

\* array.indexOf(x) for an x that occurs in the array
IndexOf(s, x) == (CHOOSE i \in 1..Len(s) : s[i] = x /\ \A j \in 1..(i - 1) : s[j] # x) - 1

UniqueSliceIds(scene) ==
    LET dataBound == SelectSeq(MapValues(scene.nodes), LAMBDA n : n.dataId # NoDataId)
    IN  Unique([i \in 1..Len(dataBound) |-> dataBound[i].dataId])

SliceIndexOf(node, uniqueSliceIds) ==
    IF node.dataId # NoDataId THEN IndexOf(uniqueSliceIds, node.dataId) ELSE 0

\* resolveAllStyles that styles the data-bound nodes only
resolveAllStyles_DataBoundOnly(scene, thm) ==
    LET uniqueSliceIds == UniqueSliceIds(scene)
        dataBound == SelectSeq(scene.nodes, LAMBDA e : e.v.dataId # NoDataId)
    IN  [i \in 1..Len(dataBound) |->
            [k |-> dataBound[i].k,
             v |-> resolveNodeStyle(dataBound[i].v, thm, SliceIndexOf(dataBound[i].v, uniqueSliceIds))]]

resolveAllStyles(scene, thm) ==
    LET uniqueSliceIds == UniqueSliceIds(scene)
    IN  [i \in 1..Len(scene.nodes) |->
            [k |-> scene.nodes[i].k,
             v |-> resolveNodeStyle(scene.nodes[i].v, thm, SliceIndexOf(scene.nodes[i].v, uniqueSliceIds))]]

(***************************************************************************)
(* Serialization.  A plain JavaScript object is                            *)
(*   [t |-> "object", own, proto]                                          *)
(* with `own` its own enumerable string-keyed properties in property order *)
(* (array-index keys in ascending numeric order, then the other keys in    *)
(* creation order) and `proto` its prototype; a Map argument is            *)
(*   [t |-> "map", entries]  and undefined is  [t |-> "undefined"].        *)
(* The values stored under the keys are objects (override records).        *)
(***************************************************************************)
JsMap(entries) == [t |-> "map", entries |-> entries]
EmptyObject == [t |-> "object", own |-> <<>>, proto |-> [builtin |-> "Object.prototype"]]

ProtoKey == <<"_", "_", "p", "r", "o", "t", "o", "_", "_">>

RECURSIVE StrToNat(_)
StrToNat(s) == IF s = <<>> THEN 0
               ELSE 10 * StrToNat(SubSeq(s, 1, Len(s) - 1))
                    + (CHOOSE i \in 0..9 : Digit(i) = s[Len(s)])

\* a canonical numeric string: such keys come first, in ascending numeric order
IsArrayIndex(key) ==
    /\ key # <<>>
    /\ \A i \in 1..Len(key) : \E d \in 0..9 : Digit(d) = key[i]
    /\ Len(key) = 1 \/ key[1] # "0"

\* the own properties after creating or overwriting the data property `key`
InsertProperty(own, key, val) ==
    IF MapHas(own, key) THEN MapSet(own, key, val)
    ELSE IF IsArrayIndex(key)
    THEN LET before == SelectSeq(own, LAMBDA e : IsArrayIndex(e.k) /\ StrToNat(e.k) < StrToNat(key))
             after == SelectSeq(own, LAMBDA e : ~(IsArrayIndex(e.k) /\ StrToNat(e.k) < StrToNat(key)))
         IN  before \o <<[k |-> key, v |-> val]>> \o after
    ELSE Append(own, [k |-> key, v |-> val])

\* map.forEach((value, key) => { record[key] = value }): the key '__proto__' reaches the
\* accessor inherited from Object.prototype, which replaces the prototype by the
\* (object) value and creates no own property
RECURSIVE SetAll(_, _, _)
SetAll(obj, entries, i) ==
    IF i > Len(entries) THEN obj
    ELSE LET key == entries[i].k
             val == entries[i].v
             assigned == IF key = ProtoKey /\ ~MapHas(obj.own, ProtoKey)
                         THEN [obj EXCEPT !.proto = val]
                         ELSE [obj EXCEPT !.own = InsertProperty(@, key, val)]
         IN  SetAll(assigned, entries, i + 1)

mapToRecord(map) ==
    IF map.t = "undefined" THEN EmptyObject
    ELSE SetAll(EmptyObject, map.entries, 1)

\* new Map(entries)
RECURSIVE MapOfEntries(_)
MapOfEntries(entries) ==
    IF entries = <<>> THEN EmptyMap
    ELSE MapSet(MapOfEntries(SubSeq(entries, 1, Len(entries) - 1)),
                entries[Len(entries)].k, entries[Len(entries)].v)

recordToMap(record) ==
    IF record.t = "undefined" THEN JsMap(EmptyMap)
    ELSE JsMap(MapOfEntries(record.own))

\* the object that an object literal or JSON.parse builds from the given entries
\* (CreateDataProperty: '__proto__' becomes an own property like any other key)
RECURSIVE ObjectOf(_)
ObjectOf(entries) ==
    IF entries = <<>> THEN EmptyObject
    ELSE [ObjectOf(SubSeq(entries, 1, Len(entries) - 1)) EXCEPT
             !.own = InsertProperty(@, entries[Len(entries)].k, entries[Len(entries)].v)]

(***************************************************************************)
(* Board-state schema.  A schema accepts a value that has the required     *)
(* fields, whose numbers are within the stated limits and whose tags are   *)
(* members of the stated enumerations; parsing returns the value without   *)
(* the fields the schema does not name.  (Numbers, strings and objects of  *)
(* the model are typed, so a value of the wrong JSON type is represented   *)
(* by a missing field, a number out of range or a tag outside the          *)
(* enumeration.)                                                           *)
(***************************************************************************)
HasAll(rec, fields) == fields \subseteq DOMAIN rec
StripTo(rec, fields) == [f \in (DOMAIN rec) \cap fields |-> rec[f]]

LabelAnchorModes == {"centroid", "edge", "outside"}

ChartDataSchemaAccepts(rd) ==
    /\ HasAll(rd, {"dimensions", "measures", "data"})
    /\ \A i \in 1..Len(rd.measures) :
          /\ HasAll(rd.measures[i], {"id", "label", "type", "aggregation"})
          /\ rd.measures[i].type = "number"
          /\ rd.measures[i].aggregation \in {"sum", "avg", "min", "max", "count"}

GeometryConfigFields ==
    {"center", "outerRadius", "innerRadius", "startAngle", "endAngle", "padAngle",
     "cornerRadius", "labelAnchorMode", "labelRadiusOffset", "sortOrder"}

GeometryConfigSchemaAccepts(gc) ==
    /\ HasAll(gc, GeometryConfigFields)
    /\ FLeq(Zero, gc.outerRadius)
    /\ FLeq(Zero, gc.innerRadius)
    /\ FLeq(Zero, gc.padAngle)
    /\ FLeq(Zero, gc.cornerRadius)
    /\ gc.labelAnchorMode \in LabelAnchorModes
    /\ gc.sortOrder \in {"none", "ascending", "descending"}

\* z.record(z.string(), valueSchema).parse(obj): every value without the unnamed fields
ParseRecord(obj, fields) ==
    [obj EXCEPT !.own = [i \in 1..Len(@) |-> [k |-> @[i].k, v |-> StripTo(@[i].v, fields)]]]

\* slice overrides have optional numeric fields only; a label override's anchorMode and an
\* annotation's type are enumerations, an annotation's id, type, x and y are required
GeometryOverridesSchemaAccepts(ov) ==
    /\ HasAll(ov, {"slices", "labels", "annotations"})
    /\ \A i \in 1..Len(ov.labels.own) :
          LET o == ov.labels.own[i].v
          IN  "anchorMode" \in DOMAIN o => o["anchorMode"] \in LabelAnchorModes
    /\ \A i \in 1..Len(ov.annotations.own) :
          LET a == ov.annotations.own[i].v
          IN  /\ HasAll(a, {"id", "type", "x", "y"})
              /\ a.type \in {"CIRCLE", "RECT", "TEXT", "ICON", "IMAGE"}

\* a node style's fillOpacity and opacity are numbers between 0 and 1 ("0", "0.5" and "1"
\* among the style values of the model)
ChartThemeSchemaAccepts(th) ==
    /\ HasAll(th, {"primaryColors", "backgroundColor", "defaultTypography", "nodeOverrides",
                   "nodeTransforms"})
    /\ \A i \in 1..Len(th.nodeOverrides.own) :
          LET st == th.nodeOverrides.own[i].v
          IN  /\ "fillOpacity" \in DOMAIN st => st["fillOpacity"] \in {"0", "0.5", "1"}
              /\ "opacity" \in DOMAIN st => st["opacity"] \in {"0", "0.5", "1"}

BoardStateSchemaAccepts(state) ==
    /\ HasAll(state, {"rawData", "geometryConfig", "overrides", "theme"})
    /\ ChartDataSchemaAccepts(state.rawData)
    /\ GeometryConfigSchemaAccepts(state.geometryConfig)
    /\ GeometryOverridesSchemaAccepts(state.overrides)
    /\ ChartThemeSchemaAccepts(state.theme)

\* BoardStateSchema.parse(state) for a state the schema accepts
BoardStateSchemaParse(state) ==
    [rawData |-> StripTo(state.rawData, {"dimensions", "measures", "series", "data", "meta"}),
     geometryConfig |-> StripTo(state.geometryConfig, GeometryConfigFields),
     overrides |->
        [slices |-> ParseRecord(state.overrides.slices,
                        {"explodeAmount", "innerRadius", "outerRadius", "outerRadiusOffset"}),
         labels |-> ParseRecord(state.overrides.labels,
                        {"positionOffset", "anchorMode", "isManuallyPositioned", "text"}),
         annotations |-> ParseRecord(state.overrides.annotations,
                        {"id", "type", "x", "y", "width", "height", "radius", "text",
                         "iconName", "imageUrl", "metadata"})],
     theme |->
        [primaryColors |-> state.theme.primaryColors,
         backgroundColor |-> state.theme.backgroundColor,
         defaultTypography |-> state.theme.defaultTypography,
         nodeOverrides |-> ParseRecord(state.theme.nodeOverrides,
                        {"fill", "fillOpacity", "stroke", "strokeWidth", "strokeDashArray",
                         "opacity", "shadow", "typography", "className"}),
         nodeTransforms |-> ParseRecord(state.theme.nodeTransforms,
                        {"x", "y", "scale", "rotate"})]]

\* processPieData's aggregationMethod for the chart data: the aggregation declared by the
\* measure of the value field (the first measure), else 'sum'
DeclaredAggregation(rd) ==
    IF Len(rd.measures) > 0 THEN rd.measures[1].aggregation ELSE "sum"

(***************************************************************************)
(* Inputs                                                                  *)
(***************************************************************************)
Str(s) == [k |-> "str", s |-> s]
NumCell(n) == [k |-> "num", n |-> n]

LabelAB == <<"A", "/", "b">>
LabelAb == <<"a", " ", "b">>
LabelC == <<"c">>

\* all sequences over S of length 0..n
RECURSIVE SeqsUpTo(_, _)
SeqsUpTo(S, n) ==
    IF n = 0 THEN {<<>>}
    ELSE LET shorter == SeqsUpTo(S, n - 1)
         IN  shorter \cup {Append(q, x) : q \in {r \in shorter : Len(r) = n - 1}, x \in S}

\* rows of the data-processor specification
DataRows ==
    [cat : {Str(LabelAB), Str(LabelAb), Str(<<" ">>)}, val : {NumCell(-1), NumCell(1), [k |-> "text"]}]
    \cup { [cat |-> [k |-> "null"], val |-> NumCell(1)],
           [cat |-> Str(<<"/">>), val |-> NumCell(1)],
           [cat |-> Str(LabelC), val |-> NumCell(0)] }
\* the five declared methods, a name that is no property at all and a name that is
\* an inherited property of the lookup object
AggregationMethods == {"sum", "avg", "min", "max", "count", "median", "__proto__"}

\* rows of the pipeline specification
PipelineRows == [cat : {Str(LabelAB), Str(LabelAb), Str(LabelC)}, val : {NumCell(0), NumCell(1)}]

DefaultConfig ==
    [center |-> Pt(Zero, Zero), outerRadius |-> Num(150), innerRadius |-> Zero,
     startAngle |-> Norm(-1, 2), endAngle |-> Norm(3, 2), padAngle |-> Zero,
     cornerRadius |-> Zero, labelAnchorMode |-> "outside", labelRadiusOffset |-> Num(30),
     sortOrder |-> "none"]

\* geometry configurations: full circle, half circle, reversed range; with and without padding
GeometryConfigs ==
    { DefaultConfig,
      [DefaultConfig EXCEPT !.padAngle = Norm(1, 4), !.innerRadius = Num(50)],
      [DefaultConfig EXCEPT !.startAngle = Zero, !.endAngle = Num(1)],
      [DefaultConfig EXCEPT !.startAngle = Zero, !.endAngle = Num(1), !.padAngle = Norm(1, 3)],
      [DefaultConfig EXCEPT !.startAngle = Num(1), !.endAngle = Zero],
      [DefaultConfig EXCEPT !.startAngle = Num(1), !.endAngle = Num(3), !.padAngle = Num(1),
                            !.innerRadius = Num(50)] }

\* scene configurations: pie and donut, each label anchor mode
SceneConfigs ==
    { DefaultConfig,
      [DefaultConfig EXCEPT !.innerRadius = Num(50), !.labelAnchorMode = "centroid"],
      [DefaultConfig EXCEPT !.labelAnchorMode = "edge"] }

SliceABId == SlicePrefix \o <<"a", "-", "b">>
SliceCId == SlicePrefix \o <<"c">>

EmptyOverrides == [slices |-> EmptyMap, labels |-> EmptyMap, annotations |-> EmptyMap]

SliceOverrideMaps ==
    { EmptyMap,
      << [k |-> SliceABId, v |-> [innerRadius |-> Zero, outerRadius |-> Num(100),
                                  outerRadiusOffset |-> Num(10), explodeAmount |-> Num(5)]] >>,
      << [k |-> SliceCId, v |-> [innerRadius |-> Num(20)]] >> }

LabelOverrideMaps ==
    { EmptyMap,
      << [k |-> SliceABId \o LabelSuffix \o <<"0">>, v |-> [anchorMode |-> "centroid"]],
         [k |-> SliceCId \o LabelSuffix \o <<"0">>,
          v |-> [anchorMode |-> "outside", positionOffset |-> Pt(Num(3), Num(4)),
                 isManuallyPositioned |-> TRUE]] >> }

AnnoId1 == <<"a", "n", "n", "o", "-", "1">>
Annotations ==
    { [id |-> AnnoId1, type |-> "CIRCLE", x |-> Num(10), y |-> Num(20)],
      [id |-> <<"a", "n", "n", "o", "-", "2">>, type |-> "TEXT", x |-> Zero, y |-> Zero],
      [id |-> ChartRootId, type |-> "RECT", x |-> Zero, y |-> Zero],
      [id |-> MainRingId, type |-> "IMAGE", x |-> Num(1), y |-> Num(1)] }

\* annotation maps as the engine builds them: keyed by the annotation's id
RECURSIVE AnnotationMapOf(_)
AnnotationMapOf(annos) ==
    IF annos = <<>> THEN EmptyMap
    ELSE MapSet(AnnotationMapOf(SubSeq(annos, 1, Len(annos) - 1)),
                annos[Len(annos)].id, annos[Len(annos)])
AnnotationMaps == {AnnotationMapOf(a) : a \in SeqsUpTo(Annotations, MaxAnnotations)}

DefaultTypography == [fontFamily |-> "Inter", fontSize |-> "14", fontColor |-> "#1e293b"]
\* <<primaryColors, backgroundColor>>
Palettes == { << <<"#4E79A7", "#F28E2B">>, "#FFFFFF" >>,
              << <<"#4E79A7", "#F28E2B">>, "#000000" >>,
              << <<>>, "#FFFFFF" >> }

GoneId == <<"g", "o", "n", "e">>

StyleOverrideMaps ==
    { EmptyMap,
      << [k |-> SliceABId \o ArcSuffix, v |-> [fill |-> "#ov", strokeDashArray |-> "4 2"]],
         [k |-> SliceABId \o PctSuffix, v |-> [fontColor |-> "#ov", fontSize |-> "20"]],
         [k |-> GoneId, v |-> [fill |-> "#ov"]] >>,
      << [k |-> SliceCId \o ArcSuffix, v |-> [strokeWidth |-> "5", fontWeight |-> "700"]],
         [k |-> SliceCId \o LabelSuffix \o <<"0">>, v |-> [fill |-> "#ov", fontSize |-> "20"]],
         [k |-> MainRingId, v |-> [fill |-> "#ov", opacity |-> "0.5", shadow |-> "sh"]] >> }

TransformOverrideMaps ==
    { EmptyMap,
      << [k |-> ChartRootId, v |-> [scale |-> Num(2)]],
         [k |-> SliceABId \o GroupSuffix, v |-> [x |-> Num(7), rotate |-> Num(90)]],
         [k |-> AnnoId1, v |-> [y |-> Num(230), scale |-> Norm(1, 2)]],
         [k |-> GoneId, v |-> [x |-> Num(1)]] >> }

\* the arguments handed to the conversions: undefined, and the maps and records over a
\* few keys (among them numeric-looking ones and '__proto__') and two override objects
ConversionArguments ==
    LET keys == { <<"b">>, <<"a">>, <<"2">>, <<"1">>, ProtoKey }
        values == { [innerRadius |-> Num(20)], [explodeAmount |-> Num(5)] }
        entries == { es \in SeqsUpTo([k : keys, v : values], MaxEntries) :
                        \A i, j \in 1..Len(es) : i # j => es[i].k # es[j].k }
    IN  {[t |-> "undefined"]} \cup {JsMap(es) : es \in entries}
                              \cup {ObjectOf(es) : es \in entries}

DefaultTheme ==
    [primaryColors |-> <<"#4E79A7", "#F28E2B">>, backgroundColor |-> "#FFFFFF",
     defaultTypography |-> DefaultTypography, nodeOverrides |-> EmptyMap, nodeTransforms |-> EmptyMap]

\* board states handed to loadBoardState: well-formed and malformed parts in every
\* combination (among them negative radii in the config, in a slice override and in an
\* annotation), and a state that lacks the theme
BoardStateCandidates ==
    LET measure == [id |-> "value", label |-> "Value", type |-> "number", aggregation |-> "sum"]
        dimension == [id |-> "category", label |-> "Category", type |-> "category"]
        rawDatas ==
            { [dimensions |-> <<dimension>>, measures |-> <<measure>>,
               data |-> << [cat |-> Str(LabelC), val |-> NumCell(1)] >>],
              [dimensions |-> <<dimension>>,
               measures |-> << [measure EXCEPT !.aggregation = "max"] >>,
               data |-> << [cat |-> Str(LabelAB), val |-> NumCell(2)],
                           [cat |-> Str(LabelC), val |-> NumCell(1)] >>],
              [dimensions |-> <<dimension>>,
               measures |-> << [measure EXCEPT !.aggregation = "median"] >>,
               data |-> << [cat |-> Str(LabelAB), val |-> NumCell(3)] >>] }
        configs ==
            { DefaultConfig,
              [DefaultConfig EXCEPT !.innerRadius = Num(50), !.labelAnchorMode = "centroid"],
              [DefaultConfig EXCEPT !.innerRadius = Num(-1)] }
        overridess ==
            { [slices |-> EmptyObject, labels |-> EmptyObject, annotations |-> EmptyObject],
              [slices |-> ObjectOf(<< [k |-> SliceCId, v |-> [innerRadius |-> Num(20)]] >>),
               labels |-> ObjectOf(<< [k |-> SliceCId \o LabelSuffix \o <<"0">>,
                                       v |-> [anchorMode |-> "edge"]] >>),
               annotations |-> ObjectOf(<< [k |-> AnnoId1,
                                            v |-> [id |-> AnnoId1, type |-> "CIRCLE",
                                                   x |-> Num(10), y |-> Num(20)]] >>)],
              [slices |-> EmptyObject,
               labels |-> ObjectOf(<< [k |-> SliceCId \o LabelSuffix \o <<"0">>,
                                       v |-> [anchorMode |-> "inside"]] >>),
               annotations |-> EmptyObject],
              [slices |-> ObjectOf(<< [k |-> SliceCId, v |-> [innerRadius |-> Num(-20),
                                                              outerRadius |-> Num(-1)]] >>),
               labels |-> EmptyObject,
               annotations |-> ObjectOf(<< [k |-> AnnoId1,
                                            v |-> [id |-> AnnoId1, type |-> "CIRCLE",
                                                   x |-> Num(10), y |-> Num(20),
                                                   radius |-> Num(-5)]] >>)] }
        themes ==
            { [primaryColors |-> <<"#4E79A7", "#F28E2B">>, backgroundColor |-> "#FFFFFF",
               defaultTypography |-> DefaultTypography, nodeOverrides |-> EmptyObject,
               nodeTransforms |-> EmptyObject],
              [primaryColors |-> <<"#E15759">>, backgroundColor |-> "#000000",
               defaultTypography |-> DefaultTypography,
               nodeOverrides |-> ObjectOf(<< [k |-> SliceCId \o ArcSuffix,
                                              v |-> [fill |-> "#ov", opacity |-> "0.5"]] >>),
               nodeTransforms |-> ObjectOf(<< [k |-> ChartRootId, v |-> [scale |-> Num(2)]] >>)],
              [primaryColors |-> <<"#E15759">>, backgroundColor |-> "#000000",
               defaultTypography |-> DefaultTypography,
               nodeOverrides |-> ObjectOf(<< [k |-> SliceCId \o ArcSuffix, v |-> [opacity |-> "2"]] >>),
               nodeTransforms |-> EmptyObject] }
    IN  [rawData : rawDatas, geometryConfig : configs, overrides : overridess, theme : themes]
        \cup [rawData : rawDatas, geometryConfig : configs, overrides : overridess]

(***************************************************************************)
(* State                                                                   *)
(***************************************************************************)
VARIABLES rows, aggregation, geometryConfig, overrides, theme, now, stage,
          processedData, geometryState, sceneGraph, resolvedStyles, boardState, conv,
          changed, call

vars == <<rows, aggregation, geometryConfig, overrides, theme, now, stage,
          processedData, geometryState, sceneGraph, resolvedStyles, boardState, conv,
          changed, call>>

inputs == <<rows, aggregation, geometryConfig, overrides, theme, now>>

\* the state kept beside a pipeline run: the argument of the last loadBoardState call, the
\* values of a conversion chain, the engine inputs that were replaced since the last
\* render and the engine operation called last
persistence == <<boardState, conv, changed, call>>

\* the inputs that the memoized stages of the engine depend on
EngineInputs == {"data", "geometryConfig", "overrides", "theme"}


NothingComputed ==
    /\ stage = "new"
    /\ processedData = [slices |-> <<>>, total |-> Zero]
    /\ geometryState = [config |-> DefaultConfig, slices |-> EmptyMap, labels |-> <<>>,
                        leaderLines |-> <<>>, annotations |-> <<>>,
                        overrides |-> EmptyOverrides, lastUpdated |-> 0]
    /\ sceneGraph = [root |-> NoRecord, nodes |-> EmptyMap, lastUpdated |-> 0]
    /\ resolvedStyles = EmptyMap
    /\ boardState = NoRecord
    /\ changed = EngineInputs
    /\ call = NoRecord

\* data-processor specification: any rows, any aggregation method
InitData ==
    /\ rows \in SeqsUpTo(DataRows, MaxRows)
    /\ aggregation \in AggregationMethods
    /\ geometryConfig = DefaultConfig
    /\ overrides = EmptyOverrides
    /\ theme = DefaultTheme
    /\ now = 0
    /\ NothingComputed
    /\ conv = <<>>

\* pipeline specification, geometry inputs varied
InitGeometryInputs ==
    /\ rows \in SeqsUpTo(PipelineRows, MaxRows)
    /\ aggregation = "sum"
    /\ geometryConfig \in GeometryConfigs
    /\ \E so \in SliceOverrideMaps : overrides = [EmptyOverrides EXCEPT !.slices = so]
    /\ theme = DefaultTheme
    /\ now = 0
    /\ NothingComputed
    /\ conv = <<>>

SceneDatasets ==
    { <<>>,
      << [cat |-> Str(LabelC), val |-> NumCell(1)] >>,
      << [cat |-> Str(LabelC), val |-> NumCell(1)], [cat |-> Str(LabelAB), val |-> NumCell(2)] >>,
      << [cat |-> Str(LabelAB), val |-> NumCell(2)], [cat |-> Str(LabelAb), val |-> NumCell(1)],
         [cat |-> Str(LabelC), val |-> NumCell(1)] >> }

\* pipeline specification, scene and style inputs varied
InitSceneInputs ==
    /\ rows \in SceneDatasets
    /\ aggregation = "sum"
    /\ geometryConfig \in SceneConfigs
    /\ \E lo \in LabelOverrideMaps, am \in AnnotationMaps :
          overrides = [EmptyOverrides EXCEPT !.labels = lo, !.annotations = am]
    /\ \E pal \in Palettes, so \in StyleOverrideMaps, tr \in TransformOverrideMaps :
          theme = [DefaultTheme EXCEPT !.primaryColors = pal[1], !.backgroundColor = pal[2],
                                       !.nodeOverrides = so, !.nodeTransforms = tr]
    /\ now = 0
    /\ NothingComputed
    /\ conv = <<>>

Init == InitGeometryInputs \/ InitSceneInputs

\* conversion specification: one argument, nothing converted yet
InitConvert ==
    /\ rows = <<>>
    /\ aggregation = "sum"
    /\ geometryConfig = DefaultConfig
    /\ overrides = EmptyOverrides
    /\ theme = DefaultTheme
    /\ now = 0
    /\ NothingComputed
    /\ \E arg \in ConversionArguments : conv = <<arg>>

\* board specification: an engine in use, no board state loaded yet
InitBoard ==
    /\ rows \in SceneDatasets
    /\ aggregation = "sum"
    /\ geometryConfig = DefaultConfig
    /\ overrides = [EmptyOverrides EXCEPT !.slices =
                        << [k |-> SliceABId, v |-> [explodeAmount |-> Num(5)]] >>]
    /\ theme \in { DefaultTheme,
                   [DefaultTheme EXCEPT !.nodeOverrides =
                       << [k |-> SliceCId \o PctSuffix,
                           v |-> [fontColor |-> "#ov", fontSize |-> "20"]] >>] }
    /\ now = 0
    /\ NothingComputed
    /\ conv = <<>>

\* repeated-run specification: a few datasets, label overrides and theme overrides
InitRerun ==
    /\ rows \in SceneDatasets
    /\ aggregation = "sum"
    /\ geometryConfig \in SceneConfigs
    /\ \E lo \in LabelOverrideMaps : overrides = [EmptyOverrides EXCEPT !.labels = lo]
    /\ \E so \in StyleOverrideMaps, tr \in TransformOverrideMaps :
          theme = [DefaultTheme EXCEPT !.nodeOverrides = so, !.nodeTransforms = tr]
    /\ now = 0
    /\ NothingComputed
    /\ conv = <<>>

(***************************************************************************)
(* Pipeline stages                                                         *)
(***************************************************************************)
\* useMemo(() => processPieData(data)); an exception leaves no new value behind
ProcessData ==
    /\ stage \in {"new", "stale"}
    /\ LET result == processPieData(rows, aggregation)
       IN  IF "threw" \in DOMAIN result
           THEN stage' = "error" /\ UNCHANGED processedData
           ELSE stage' = "data" /\ processedData' = result
    /\ UNCHANGED <<inputs, persistence, geometryState, sceneGraph, resolvedStyles>>

ResolveGeometry ==
    /\ stage = "data"
    /\ geometryState' = resolveGeometry(processedData, geometryConfig, overrides, now)
    /\ stage' = "geometry"
    /\ UNCHANGED <<inputs, persistence, processedData, sceneGraph, resolvedStyles>>

\* a scene stage that consumes the transform overrides it has applied
ResolveSceneGraph_ConsumesTransforms ==
    /\ stage = "geometry"
    /\ sceneGraph' = resolveSceneGraph(geometryState, theme, now)
    /\ stage' = "scene"
    /\ theme' = [theme EXCEPT !.nodeTransforms = EmptyMap]
    /\ UNCHANGED <<rows, aggregation, geometryConfig, overrides, now, persistence,
                   processedData, geometryState, resolvedStyles>>

ResolveSceneGraph ==
    /\ stage = "geometry"
    /\ sceneGraph' = resolveSceneGraph(geometryState, theme, now)
    /\ stage' = "scene"
    /\ UNCHANGED <<inputs, persistence, processedData, geometryState, resolvedStyles>>

\* a style stage that also resolves a style for every id named by a theme override
ResolveAllStyles_StylesEveryOverride ==
    /\ stage = "scene"
    /\ LET styles == resolveAllStyles(sceneGraph, theme)
           absent == SelectSeq(theme.nodeOverrides, LAMBDA e : ~MapHas(styles, e.k))
       IN  resolvedStyles' = styles \o [i \in 1..Len(absent) |-> [k |-> absent[i].k, v |-> absent[i].v]]
    /\ stage' = "styles"
    /\ UNCHANGED <<inputs, persistence, processedData, geometryState, sceneGraph>>

ResolveAllStyles ==
    /\ stage = "scene"
    /\ resolvedStyles' = resolveAllStyles(sceneGraph, theme)
    /\ stage' = "styles"
    /\ UNCHANGED <<inputs, persistence, processedData, geometryState, sceneGraph>>

\* the caller passes the same rows in another order (two adjacent rows exchanged)
ReorderRows ==
    /\ stage # "new"
    /\ \E i \in 1..(Len(rows) - 1) :
          rows' = [rows EXCEPT ![i] = rows[i + 1], ![i + 1] = rows[i]]
    /\ stage' = "stale"
    /\ UNCHANGED <<aggregation, geometryConfig, overrides, theme, now, persistence,
                   processedData, geometryState, sceneGraph, resolvedStyles>>

\* the caller runs the pipeline once more on the same inputs; Date.now() has meanwhile
\* advanced by some number of milliseconds (possibly none)
RunAgain ==
    /\ stage = "styles"
    /\ \E t \in now..MaxClock : now' = t
    /\ stage' = "stale"
    /\ UNCHANGED <<rows, aggregation, geometryConfig, overrides, theme, persistence,
                   processedData, geometryState, sceneGraph, resolvedStyles>>

\* mapToRecord applied to the last value of the chain (a Map or undefined)
ConvertMapToRecord ==
    /\ Len(conv) \in 1..MaxConversions
    /\ conv[Len(conv)].t \in {"map", "undefined"}
    /\ conv' = Append(conv, mapToRecord(conv[Len(conv)]))
    /\ UNCHANGED <<inputs, stage, boardState, changed, call, processedData, geometryState,
                   sceneGraph, resolvedStyles>>

\* recordToMap applied to the last value of the chain (a record or undefined)
ConvertRecordToMap ==
    /\ Len(conv) \in 1..MaxConversions
    /\ conv[Len(conv)].t \in {"object", "undefined"}
    /\ conv' = Append(conv, recordToMap(conv[Len(conv)]))
    /\ UNCHANGED <<inputs, stage, boardState, changed, call, processedData, geometryState,
                   sceneGraph, resolvedStyles>>

\* "Copy Board State JSON": the state object is built from the chart data, the geometry
\* config and the override and theme maps converted with mapToRecord, and is passed
\* through BoardStateSchema.parse; the parsed value is what is copied.  When the parse
\* raises nothing is copied.
CopyBoardState ==
    /\ LET state ==
               [rawData |-> [dimensions |-> << [id |-> "category", label |-> "Category",
                                                type |-> "category"] >>,
                             measures |-> << [id |-> "value", label |-> "Value",
                                              type |-> "number", aggregation |-> aggregation] >>,
                             data |-> rows],
                geometryConfig |-> geometryConfig,
                overrides |-> [slices |-> mapToRecord(JsMap(overrides.slices)),
                               labels |-> mapToRecord(JsMap(overrides.labels)),
                               annotations |-> mapToRecord(JsMap(overrides.annotations))],
                theme |-> Spread(theme,
                              [nodeOverrides |-> mapToRecord(JsMap(theme.nodeOverrides)),
                               nodeTransforms |-> mapToRecord(JsMap(theme.nodeTransforms))])]
       IN  call' = IF BoardStateSchemaAccepts(state)
                   THEN [op |-> "copyBoardState", state |-> BoardStateSchemaParse(state)]
                   ELSE [op |-> "copyBoardState"]
    /\ UNCHANGED <<inputs, stage, boardState, conv, changed,
                   processedData, geometryState, sceneGraph, resolvedStyles>>

\* loadBoardState that takes over the chart data as soon as that part is found valid
LoadBoardState_DataFirst ==
    \E state \in BoardStateCandidates
                    \cup (IF "state" \in DOMAIN call THEN {call.state} ELSE {}) :
        /\ boardState' = state
        /\ call' = [op |-> "loadBoardState"]
        /\ changed' = IF BoardStateSchemaAccepts(state) THEN EngineInputs ELSE changed
        /\ IF ChartDataSchemaAccepts(state.rawData)
           THEN /\ rows' = state.rawData.data
                /\ aggregation' = DeclaredAggregation(state.rawData)
                /\ stage' = "stale"
           ELSE UNCHANGED <<rows, aggregation, stage>>
        /\ IF BoardStateSchemaAccepts(state)
           THEN LET parsed == BoardStateSchemaParse(state)
                IN  /\ geometryConfig' = parsed.geometryConfig
                    /\ overrides' = [slices |-> recordToMap(parsed.overrides.slices).entries,
                                     labels |-> recordToMap(parsed.overrides.labels).entries,
                                     annotations |->
                                         recordToMap(parsed.overrides.annotations).entries]
                    /\ theme' = Spread(parsed.theme,
                                   [nodeOverrides |-> recordToMap(parsed.theme.nodeOverrides).entries,
                                    nodeTransforms |->
                                        recordToMap(parsed.theme.nodeTransforms).entries])
           ELSE UNCHANGED <<geometryConfig, overrides, theme>>
        /\ UNCHANGED <<now, conv, processedData, geometryState, sceneGraph, resolvedStyles>>

\* loadBoardState(state): BoardStateSchema.parse(state) either raises, and the handler
\* only reports the failure, or returns the parsed state, from which the four setters
\* are called; the derived values are recomputed afterwards.  The state is one handed in
\* from outside or the one copied last.
LoadBoardState ==
    \E state \in BoardStateCandidates
                    \cup (IF "state" \in DOMAIN call THEN {call.state} ELSE {}) :
        /\ boardState' = state
        /\ call' = [op |-> "loadBoardState"]
        /\ changed' = IF BoardStateSchemaAccepts(state) THEN EngineInputs ELSE changed
        /\ IF BoardStateSchemaAccepts(state)
           THEN LET parsed == BoardStateSchemaParse(state)
                IN  /\ rows' = parsed.rawData.data
                    /\ aggregation' = DeclaredAggregation(parsed.rawData)
                    /\ geometryConfig' = parsed.geometryConfig
                    /\ overrides' = [slices |-> recordToMap(parsed.overrides.slices).entries,
                                     labels |-> recordToMap(parsed.overrides.labels).entries,
                                     annotations |->
                                         recordToMap(parsed.overrides.annotations).entries]
                    /\ theme' = Spread(parsed.theme,
                                   [nodeOverrides |-> recordToMap(parsed.theme.nodeOverrides).entries,
                                    nodeTransforms |->
                                        recordToMap(parsed.theme.nodeTransforms).entries])
                    /\ stage' = "stale"
           ELSE UNCHANGED <<rows, aggregation, geometryConfig, overrides, theme, stage>>
        /\ UNCHANGED <<now, conv, processedData, geometryState, sceneGraph, resolvedStyles>>

(***************************************************************************)
(* Engine (useChartEngine).  A render runs the four memoized stages in     *)
(* order; a stage is recomputed when one of its dependencies was replaced  *)
(* since the last render.  Every setter replaces the state object it sets, *)
(* and the hook is rendered again afterwards; several setter calls may     *)
(* precede one render.  The clock moves on by a millisecond with every     *)
(* input change, which also bounds the number of changes in a behaviour.   *)
(***************************************************************************)
\* engine specification: mounted options (geometryConfig, initialOverrides, theme)
InitEngine ==
    /\ rows \in { << [cat |-> Str(LabelC), val |-> NumCell(1)] >>,
                  << [cat |-> Str(LabelAB), val |-> NumCell(2)],
                     [cat |-> Str(LabelC), val |-> NumCell(1)] >> }
    /\ aggregation = "sum"
    /\ geometryConfig = DefaultConfig
    /\ \/ overrides = EmptyOverrides /\ theme = DefaultTheme
       \/ /\ overrides =
                [slices |-> << [k |-> SliceABId, v |-> [outerRadius |-> Num(100)]],
                               [k |-> SliceCId, v |-> [innerRadius |-> Num(20)]] >>,
                 labels |-> << [k |-> SliceABId \o LabelSuffix \o <<"0">>,
                                v |-> [anchorMode |-> "edge"]] >>,
                 annotations |-> AnnotationMapOf(<< [id |-> AnnoId1, type |-> "CIRCLE",
                                                     x |-> Num(10), y |-> Num(20)] >>)]
          /\ theme =
                [DefaultTheme EXCEPT
                    !.nodeOverrides = << [k |-> SliceABId \o ArcSuffix, v |-> [fill |-> "#ov"]],
                                         [k |-> SliceCId \o ArcSuffix, v |-> [fill |-> "#ov"]] >>,
                    !.nodeTransforms = << [k |-> AnnoId1, v |-> [y |-> Num(230)]] >>]
    /\ now = 0
    /\ NothingComputed
    /\ conv = <<>>

\* a render that recomputes the scene graph only when the geometry was recomputed
Render_SceneIgnoresTheme ==
    /\ changed # {}
    /\ LET recomputeData == "data" \in changed
           data == IF recomputeData THEN processPieData(rows, aggregation) ELSE processedData
           recomputeGeometry == recomputeData \/ "geometryConfig" \in changed
                                              \/ "overrides" \in changed
           geometry == IF recomputeGeometry
                       THEN resolveGeometry(data, geometryConfig, overrides, now)
                       ELSE geometryState
           recomputeScene == recomputeGeometry
           scene == IF recomputeScene THEN resolveSceneGraph(geometry, theme, now) ELSE sceneGraph
           recomputeStyles == recomputeScene \/ "theme" \in changed
           styles == IF recomputeStyles THEN resolveAllStyles(scene, theme) ELSE resolvedStyles
       IN  IF "threw" \in DOMAIN data
           THEN /\ stage' = "error"
                /\ UNCHANGED <<changed, processedData, geometryState, sceneGraph, resolvedStyles>>
           ELSE /\ stage' = "styles"
                /\ changed' = {}
                /\ processedData' = data
                /\ geometryState' = geometry
                /\ sceneGraph' = scene
                /\ resolvedStyles' = styles
    /\ UNCHANGED <<inputs, boardState, conv, call>>

\* one run of the hook body: useMemo(processPieData, [data]),
\* useMemo(resolveGeometry, [processedData, geometryConfig, overrides]),
\* useMemo(resolveSceneGraph, [geometryState, theme]),
\* useMemo(resolveAllStyles, [sceneGraph, theme])
Render ==
    /\ changed # {}
    /\ LET recomputeData == "data" \in changed
           data == IF recomputeData THEN processPieData(rows, aggregation) ELSE processedData
           recomputeGeometry == recomputeData \/ "geometryConfig" \in changed
                                              \/ "overrides" \in changed
           geometry == IF recomputeGeometry
                       THEN resolveGeometry(data, geometryConfig, overrides, now)
                       ELSE geometryState
           recomputeScene == recomputeGeometry \/ "theme" \in changed
           scene == IF recomputeScene THEN resolveSceneGraph(geometry, theme, now) ELSE sceneGraph
           recomputeStyles == recomputeScene \/ "theme" \in changed
           styles == IF recomputeStyles THEN resolveAllStyles(scene, theme) ELSE resolvedStyles
       IN  IF "threw" \in DOMAIN data
           THEN /\ stage' = "error"
                /\ UNCHANGED <<changed, processedData, geometryState, sceneGraph, resolvedStyles>>
           ELSE /\ stage' = "styles"
                /\ changed' = {}
                /\ processedData' = data
                /\ geometryState' = geometry
                /\ sceneGraph' = scene
                /\ resolvedStyles' = styles
    /\ UNCHANGED <<inputs, boardState, conv, call>>

\* the caller renders the hook with new chart data (the `data` argument)
SetData ==
    /\ stage \in {"styles", "stale"}
    /\ now < MaxClock
    /\ \E d \in { [data |-> << [cat |-> Str(LabelC), val |-> NumCell(1)],
                                   [cat |-> Str(LabelAB), val |-> NumCell(2)] >>,
                        aggregation |-> "sum"],
                       [data |-> << [cat |-> Str(LabelAB), val |-> NumCell(2)],
                                   [cat |-> Str(LabelC), val |-> NumCell(1)],
                                   [cat |-> Str(LabelC), val |-> NumCell(1)] >>,
                        aggregation |-> "count"] } :
          /\ call' = [op |-> "data"]
          /\ rows' = d.data /\ aggregation' = d.aggregation
    /\ changed' = changed \cup {"data"}
    /\ now' = now + 1
    /\ stage' = "stale"
    /\ UNCHANGED <<geometryConfig, overrides, theme, boardState, conv,
                   processedData, geometryState, sceneGraph, resolvedStyles>>

\* setGeometryConfig(config)
SetGeometryConfig ==
    /\ stage \in {"styles", "stale"}
    /\ now < MaxClock
    /\ \E config \in {[DefaultConfig EXCEPT !.innerRadius = Num(50),
                                             !.labelAnchorMode = "centroid"]} :
          /\ call' = [op |-> "setGeometryConfig"]
          /\ geometryConfig' = config
    /\ changed' = changed \cup {"geometryConfig"}
    /\ now' = now + 1
    /\ stage' = "stale"
    /\ UNCHANGED <<rows, aggregation, overrides, theme, boardState, conv,
                   processedData, geometryState, sceneGraph, resolvedStyles>>

\* setOverrides(value)
SetOverrides ==
    /\ stage \in {"styles", "stale"}
    /\ now < MaxClock
    /\ \E value \in { [EmptyOverrides EXCEPT !.labels =
                           << [k |-> SliceABId \o LabelSuffix \o <<"0">>,
                               v |-> [anchorMode |-> "centroid"]] >>] } :
          /\ call' = [op |-> "setOverrides"]
          /\ overrides' = value
    /\ changed' = changed \cup {"overrides"}
    /\ now' = now + 1
    /\ stage' = "stale"
    /\ UNCHANGED <<rows, aggregation, geometryConfig, theme, boardState, conv,
                   processedData, geometryState, sceneGraph, resolvedStyles>>

\* setTheme(value)
SetTheme ==
    /\ stage \in {"styles", "stale"}
    /\ now < MaxClock
    /\ \E value \in { [DefaultTheme EXCEPT !.primaryColors = <<"#E15759">>,
                                         !.backgroundColor = "#000000"] } :
          /\ call' = [op |-> "setTheme"]
          /\ theme' = value
    /\ changed' = changed \cup {"theme"}
    /\ now' = now + 1
    /\ stage' = "stale"
    /\ UNCHANGED <<rows, aggregation, geometryConfig, overrides, boardState, conv,
                   processedData, geometryState, sceneGraph, resolvedStyles>>

\* updateSliceOverride that edits the slice-override map in place: the geometry state of
\* the last render holds the same map and sees the new entry
UpdateSliceOverride_InPlace ==
    /\ stage \in {"styles", "stale"}
    /\ now < MaxClock
    /\ \E sliceId \in {SliceCId},
          update \in {[innerRadius |-> Num(20)], [explodeAmount |-> Num(5), innerRadius |-> Zero]} :
          /\ call' = [op |-> "updateSliceOverride", id |-> sliceId, update |-> update]
          /\ LET newSlices == MapSet(overrides.slices, sliceId,
                                     Spread(MapGetOpt(overrides.slices, sliceId), update))
             IN  /\ overrides' = [overrides EXCEPT !.slices = newSlices]
                 /\ geometryState' = [geometryState EXCEPT !.overrides.slices = newSlices]
    /\ changed' = changed \cup {"overrides"}
    /\ now' = now + 1
    /\ stage' = "stale"
    /\ UNCHANGED <<rows, aggregation, geometryConfig, theme, boardState, conv,
                   processedData, sceneGraph, resolvedStyles>>

\* updateSliceOverride(sliceId, update)
UpdateSliceOverride ==
    /\ stage \in {"styles", "stale"}
    /\ now < MaxClock
    /\ \E sliceId \in {SliceCId},
          update \in {[innerRadius |-> Num(20)], [explodeAmount |-> Num(5), innerRadius |-> Zero]} :
          /\ call' = [op |-> "updateSliceOverride", id |-> sliceId, update |-> update]
          /\ LET newSlices == MapSet(overrides.slices, sliceId,
                                     Spread(MapGetOpt(overrides.slices, sliceId), update))
             IN  overrides' = [overrides EXCEPT !.slices = newSlices]
    /\ changed' = changed \cup {"overrides"}
    /\ now' = now + 1
    /\ stage' = "stale"
    /\ UNCHANGED <<rows, aggregation, geometryConfig, theme, boardState, conv,
                   processedData, geometryState, sceneGraph, resolvedStyles>>

\* updateLabelOverride(labelId, update)
UpdateLabelOverride ==
    /\ stage \in {"styles", "stale"}
    /\ now < MaxClock
    /\ \E labelId \in {SliceCId \o LabelSuffix \o <<"0">>},
          update \in {[anchorMode |-> "centroid"],
                      [positionOffset |-> Pt(Num(3), Num(4)), isManuallyPositioned |-> TRUE]} :
          /\ call' = [op |-> "updateLabelOverride", id |-> labelId, update |-> update]
          /\ LET newLabels == MapSet(overrides.labels, labelId,
                                     Spread(MapGetOpt(overrides.labels, labelId), update))
             IN  overrides' = [overrides EXCEPT !.labels = newLabels]
    /\ changed' = changed \cup {"overrides"}
    /\ now' = now + 1
    /\ stage' = "stale"
    /\ UNCHANGED <<rows, aggregation, geometryConfig, theme, boardState, conv,
                   processedData, geometryState, sceneGraph, resolvedStyles>>

\* updateNodeStyle(nodeId, style)
UpdateNodeStyle ==
    /\ stage \in {"styles", "stale"}
    /\ now < MaxClock
    /\ \E nodeId \in {SliceCId \o ArcSuffix},
          style \in {[fill |-> "#f00", strokeWidth |-> "5"], [fontSize |-> "20"]} :
          /\ call' = [op |-> "updateNodeStyle", id |-> nodeId, update |-> style]
          /\ LET newOverrides == MapSet(theme.nodeOverrides, nodeId,
                                        Spread(MapGetOpt(theme.nodeOverrides, nodeId), style))
             IN  theme' = [theme EXCEPT !.nodeOverrides = newOverrides]
    /\ changed' = changed \cup {"theme"}
    /\ now' = now + 1
    /\ stage' = "stale"
    /\ UNCHANGED <<rows, aggregation, geometryConfig, overrides, boardState, conv,
                   processedData, geometryState, sceneGraph, resolvedStyles>>

\* updateNodeTransform(nodeId, transform)
UpdateNodeTransform ==
    /\ stage \in {"styles", "stale"}
    /\ now < MaxClock
    /\ \E nodeId \in {ChartRootId},
          transform \in {[scale |-> Num(2)], [x |-> Num(7), rotate |-> Num(90)]} :
          /\ call' = [op |-> "updateNodeTransform", id |-> nodeId, update |-> transform]
          /\ LET newTransforms == MapSet(theme.nodeTransforms, nodeId,
                                         Spread(MapGetOpt(theme.nodeTransforms, nodeId), transform))
             IN  theme' = [theme EXCEPT !.nodeTransforms = newTransforms]
    /\ changed' = changed \cup {"theme"}
    /\ now' = now + 1
    /\ stage' = "stale"
    /\ UNCHANGED <<rows, aggregation, geometryConfig, overrides, boardState, conv,
                   processedData, geometryState, sceneGraph, resolvedStyles>>

\* addAnnotation(anno)
AddAnnotation ==
    /\ stage \in {"styles", "stale"}
    /\ now < MaxClock
    /\ \E anno \in { [id |-> AnnoId1, type |-> "RECT", x |-> Zero, y |-> Zero],
                    [id |-> MainRingId, type |-> "IMAGE", x |-> Num(1), y |-> Num(1)] } :
          /\ call' = [op |-> "addAnnotation", id |-> anno.id, update |-> anno]
          /\ overrides' = [overrides EXCEPT !.annotations = MapSet(@, anno.id, anno)]
    /\ changed' = changed \cup {"overrides"}
    /\ now' = now + 1
    /\ stage' = "stale"
    /\ UNCHANGED <<rows, aggregation, geometryConfig, theme, boardState, conv,
                   processedData, geometryState, sceneGraph, resolvedStyles>>

\* removeAnnotation(id)
RemoveAnnotation ==
    /\ stage \in {"styles", "stale"}
    /\ now < MaxClock
    /\ \E id \in {AnnoId1, GoneId} :
          /\ call' = [op |-> "removeAnnotation", id |-> id]
          /\ overrides' = [overrides EXCEPT !.annotations = SelectSeq(@, LAMBDA e : e.k # id)]
    /\ changed' = changed \cup {"overrides"}
    /\ now' = now + 1
    /\ stage' = "stale"
    /\ UNCHANGED <<rows, aggregation, geometryConfig, theme, boardState, conv,
                   processedData, geometryState, sceneGraph, resolvedStyles>>

NextData == ProcessData \/ ReorderRows

Next == ProcessData \/ ResolveGeometry \/ ResolveSceneGraph \/ ResolveAllStyles

SpecData == InitData /\ [][NextData]_vars

Spec == Init /\ [][Next]_vars

NextConvert == ConvertMapToRecord \/ ConvertRecordToMap

SpecConvert == InitConvert /\ [][NextConvert]_vars

NextBoard == LoadBoardState \/ CopyBoardState

SpecBoard == InitBoard /\ [][NextBoard]_vars

NextRerun == ProcessData \/ ResolveGeometry \/ ResolveSceneGraph \/ ResolveAllStyles \/ RunAgain

SpecRerun == InitRerun /\ [][NextRerun]_vars

NextEngine ==
    \/ Render
    \/ SetData
    \/ SetGeometryConfig
    \/ SetOverrides
    \/ SetTheme
    \/ UpdateSliceOverride
    \/ UpdateLabelOverride
    \/ UpdateNodeStyle
    \/ UpdateNodeTransform
    \/ AddAnnotation
    \/ RemoveAnnotation

SpecEngine == InitEngine /\ [][NextEngine]_vars

(***************************************************************************)
(* Properties                                                              *)
(***************************************************************************)
GeometryDone == stage \in {"geometry", "scene", "styles"}
SceneDone == stage \in {"scene", "styles"}
StylesDone == stage = "styles"

\* C1: for every dataset that yields at least one slice the percentages returned by
\* processPieData sum to 100, and when the total of the aggregated values is 0 every
\* one of the n slices receives the equal share 100/n.
C1_PercentagesSumTo100 ==
    stage = "data" =>
        LET sl == processedData.slices
            pcts == [i \in 1..Len(sl) |-> sl[i].percentage]
        IN  /\ Len(sl) >= 1 => FSum(pcts) = Hundred
            /\ (Len(sl) >= 1 /\ processedData.total = Zero) =>
                   \A i \in 1..Len(sl) : pcts[i] = Norm(100, Len(sl))

\* C1 witness: several slices whose non-zero aggregated values cancel to a total of 0
C1_Witness ==
    /\ stage = "data"
    /\ Len(processedData.slices) >= 2
    /\ processedData.total = Zero
    /\ \E i \in 1..Len(processedData.slices) : processedData.slices[i].rawValue # Zero

\* C3: processPieData returns the slices in non-increasing order of aggregated rawValue,
\* and two slices of equal rawValue appear in the order in which their categories were
\* first encountered in the row array.
C3_SortedDescendingStable ==
    stage = "data" =>
        LET sl == processedData.slices
            FirstRow(label) == CHOOSE r \in 1..Len(rows) :
                                  /\ CategoryValue(rows[r]) = label
                                  /\ \A q \in 1..(r - 1) : CategoryValue(rows[q]) # label
        IN  \A i, j \in 1..Len(sl) :
                i < j => /\ FLeq(sl[j].rawValue, sl[i].rawValue)
                         /\ sl[i].rawValue = sl[j].rawValue =>
                                FirstRow(sl[i].label) < FirstRow(sl[j].label)

\* C3 witness: the largest category is encountered last and moves in front of two
\* tied categories, which keep their encounter order
C3_Witness ==
    /\ stage = "data"
    /\ Len(rows) = 3
    /\ Len(processedData.slices) = 3
    /\ processedData.slices[1].originalRowIndices = <<2>>
    /\ processedData.slices[2].originalRowIndices = <<0>>
    /\ processedData.slices[3].originalRowIndices = <<1>>
    /\ processedData.slices[2].rawValue = processedData.slices[3].rawValue
    /\ FLess(processedData.slices[2].rawValue, processedData.slices[1].rawValue)

\* C4: the slice id is a function of the label text only: when the rows are reordered
\* (same multiset of category labels and values) processPieData yields the same set of
\* slice ids as before the reordering.
C4_SliceIdsIndependentOfRowOrder ==
    [][(stage = "stale" /\ stage' = "data") =>
          {processedData'.slices[i].sliceId : i \in 1..Len(processedData'.slices)}
            = {processedData.slices[i].sliceId : i \in 1..Len(processedData.slices)}]_vars

C5_EmptyPathIffSpanWithinPad ==
    GeometryDone =>
        \A i \in 1..Len(geometryState.slices) :
            LET g == geometryState.slices[i].v
                collapsed == FLeq(FSub(FDiv(FSub(g.endAngle, g.startAngle), Two),
                                       FDiv(geometryConfig.padAngle, Two)), Zero)
            IN  /\ (g.pathData = <<>>) <=> collapsed
                /\ ~collapsed => (Len(g.pathData) >= 1 /\ g.pathData[1].c = "M")

\* C5 witness: a padded chart holding a slice whose span equals the pad angle exactly
\* (empty path) next to a slice whose span exceeds it
C5_Witness ==
    /\ stage = "geometry"
    /\ FLess(Zero, geometryConfig.padAngle)
    /\ \E i, j \in 1..Len(geometryState.slices) :
          LET g == geometryState.slices[i].v
              h == geometryState.slices[j].v
          IN  /\ FSub(g.endAngle, g.startAngle) = geometryConfig.padAngle
              /\ FLess(geometryConfig.padAngle, FSub(h.endAngle, h.startAngle))

\* C6: in every scene graph returned by resolveSceneGraph the root is the only node with a
\* null parentId, every other node's parentId is the id of a node in the flat lookup map,
\* that parent's children list contains the node, and following parentId links from any
\* node reaches the root (a tree without cycles).
C6_SceneGraphIsTree ==
    SceneDone =>
        LET nodes == sceneGraph.nodes
            ns == MapValues(nodes)
            RECURSIVE reachesRoot(_, _)
            reachesRoot(n, fuel) ==
                IF n.parentId = NullId THEN n = sceneGraph.root
                ELSE /\ fuel > 0
                     /\ MapHas(nodes, n.parentId)
                     /\ reachesRoot(MapGet(nodes, n.parentId), fuel - 1)
        IN  /\ sceneGraph.root.parentId = NullId
            /\ MapHas(nodes, sceneGraph.root.id)
            /\ MapGet(nodes, sceneGraph.root.id) = sceneGraph.root
            /\ \A i \in 1..Len(ns) :
                  /\ ns[i].parentId = NullId => ns[i] = sceneGraph.root
                  /\ ns[i].parentId # NullId =>
                        /\ MapHas(nodes, ns[i].parentId)
                        /\ ns[i] \in SeqToSet(MapGet(nodes, ns[i].parentId).children)
                  /\ reachesRoot(ns[i], Len(ns))

\* C7: for N slices with config inner radius 0 and no annotations the flat lookup map
\* returned by resolveSceneGraph contains exactly 1 + 1 + 3N + 1 + N + L nodes, L being
\* the number of leader lines produced by the label placer (N counts the slice geometries
\* handed to the scene builder).
C7_NodeCount ==
    (SceneDone /\ geometryConfig.innerRadius = Zero /\ overrides.annotations = EmptyMap) =>
        Len(sceneGraph.nodes) = 1 + 1 + 3 * Len(geometryState.slices) + 1
                                 + Len(geometryState.slices) + Len(geometryState.leaderLines)

\* C7 witness: a pie of two slices of which exactly one has a leader line
C7_Witness ==
    /\ stage = "scene"
    /\ geometryConfig.innerRadius = Zero
    /\ overrides.annotations = EmptyMap
    /\ Len(geometryState.slices) = 2
    /\ Len(geometryState.leaderLines) = 1

\* C8: for every node and every style field present in the theme's nodeOverrides entry for
\* the node's id, the resolved style carries the override's value for that field whatever
\* the node type's default is; fields absent from the override keep the type-based default.
C8_OverrideWins ==
    StylesDone =>
        \A i \in 1..Len(sceneGraph.nodes) :
            LET node == sceneGraph.nodes[i].v
                style == MapGet(resolvedStyles, node.id)
                override == MapGetOpt(theme.nodeOverrides, node.id)
                dflt == TypeBase(node, theme, SliceIndexOf(node, UniqueSliceIds(sceneGraph)))
            IN  /\ \A f \in DOMAIN override : f \in DOMAIN style /\ style[f] = override[f]
                /\ \A f \in (DOMAIN dflt) \ (DOMAIN override) :
                      f \in DOMAIN style /\ style[f] = dflt[f]

\* C8 witness: an arc node whose override sets a fill different from its palette colour
\* and leaves the stroke to the type default
C8_Witness ==
    /\ StylesDone
    /\ \E i \in 1..Len(sceneGraph.nodes) :
          LET node == sceneGraph.nodes[i].v
              override == MapGetOpt(theme.nodeOverrides, node.id)
          IN  /\ node.type = "ARC"
              /\ Has(override, "fill")
              /\ ~Has(override, "stroke")
              /\ override["fill"] #
                    TypeBase(node, theme, SliceIndexOf(node, UniqueSliceIds(sceneGraph)))["fill"]

\* C9: every ARC node with no fill override gets fill = primaryColors[i mod paletteLength],
\* where i is the zero-based position of the arc's slice among the unique data-bound slice
\* ids of the scene, which equals the slice's position in the processed (value-descending)
\* slice order.
C9_ArcFillByProcessedOrder ==
    StylesDone =>
        \A k \in 1..Len(sceneGraph.nodes) :
            LET node == sceneGraph.nodes[k].v
                ids == UniqueSliceIds(sceneGraph)
            IN  (node.type = "ARC" /\ ~Has(MapGetOpt(theme.nodeOverrides, node.id), "fill")) =>
                    \E i \in 0..(Len(ids) - 1) :
                        /\ ids[i + 1] = node.dataId
                        /\ MapGet(resolvedStyles, node.id)["fill"] = PaletteColor(theme, i)
                        /\ \A p \in 1..Len(processedData.slices) :
                              processedData.slices[p].sliceId = node.dataId => p - 1 = i

\* C10: style resolution is total: for every node type and every theme accepted by the
\* theme schema (any palette, any partial or absent override) the ResolvedStyle has every
\* required field populated, an unset dash pattern resolved to the empty string and an
\* unset font weight resolved to 400.
C10_ResolvedStyleComplete ==
    StylesDone =>
        \A i \in 1..Len(sceneGraph.nodes) :
            LET node == sceneGraph.nodes[i].v
                style == MapGet(resolvedStyles, node.id)
                override == MapGetOpt(theme.nodeOverrides, node.id)
                dflt == TypeBase(node, theme, 0)
            IN  /\ \A f \in {"fill", "fillOpacity", "stroke", "strokeWidth", "strokeDashArray",
                             "opacity", "fontFamily", "fontSize", "fontWeight", "fontColor",
                             "textAnchor"} : f \in DOMAIN style /\ style[f] # Undefined
                /\ (~Has(override, "strokeDashArray") /\ ~Has(dflt, "strokeDashArray")) =>
                       style["strokeDashArray"] = ""
                /\ (~Has(override, "fontWeight") /\ ~Has(dflt, "fontWeight")) =>
                       style["fontWeight"] = "400"

\* C11: a full pipeline run (processPieData, resolveGeometry, resolveSceneGraph,
\* resolveAllStyles) leaves the caller-owned inputs unchanged: no stage changes the slice,
\* label and annotation override maps or their entries, nor the theme's nodeOverrides and
\* nodeTransforms maps or their entries; what resolveGeometry passes on of them (the
\* overrides object and the annotation objects) is what the caller supplied.
C11_InputsUnchangedByPipeline ==
    [][/\ overrides' = overrides
       /\ theme' = theme
       /\ stage' = "geometry" =>
              /\ geometryState'.overrides = overrides
              /\ geometryState'.annotations = MapValues(overrides.annotations)]_vars

\* C11 witness: a completed run over non-empty label, annotation, style and transform
\* override maps in which the scene stage has applied a transform override to a node
C11_Witness ==
    /\ stage = "styles"
    /\ overrides.labels # EmptyMap
    /\ overrides.annotations # EmptyMap
    /\ theme.nodeOverrides # EmptyMap
    /\ theme.nodeTransforms # EmptyMap
    /\ \E i \in 1..Len(sceneGraph.nodes) :
          /\ MapHas(theme.nodeTransforms, sceneGraph.nodes[i].k)
          /\ \A f \in DOMAIN MapGet(theme.nodeTransforms, sceneGraph.nodes[i].k) :
                sceneGraph.nodes[i].v.transform[f]
                  = MapGet(theme.nodeTransforms, sceneGraph.nodes[i].k)[f]

C13_EmptyDataRepresentable ==
    rows = <<>> =>
        /\ stage # "error"
        /\ stage \in {"data", "geometry", "scene", "styles"} =>
               processedData.slices = <<>> /\ processedData.total = Zero
        /\ GeometryDone =>
               /\ geometryState.slices = EmptyMap
               /\ geometryState.labels = <<>>
               /\ geometryState.leaderLines = <<>>
        /\ (SceneDone /\ geometryConfig.innerRadius = Zero /\ overrides.annotations = EmptyMap) =>
               /\ MapKeys(sceneGraph.nodes) = <<ChartRootId, MainRingId, LabelsLayerId>>
               /\ sceneGraph.root.id = ChartRootId
               /\ Len(sceneGraph.root.children) = 2
               /\ \A i \in 1..2 : sceneGraph.root.children[i].children = <<>>
        /\ (StylesDone /\ geometryConfig.innerRadius = Zero /\ overrides.annotations = EmptyMap) =>
               /\ MapKeys(resolvedStyles) = <<ChartRootId, MainRingId, LabelsLayerId>>
               /\ \A i \in 1..Len(resolvedStyles) :
                     \A f \in {"fill", "stroke", "opacity", "fontFamily", "fontWeight"} :
                        f \in DOMAIN resolvedStyles[i].v /\ resolvedStyles[i].v[f] # Undefined

\* C13 witness: the four stages have run on an empty row array (pie, no annotations)
C13_Witness ==
    /\ stage = "styles"
    /\ rows = <<>>
    /\ geometryConfig.innerRadius = Zero
    /\ overrides.annotations = EmptyMap
    /\ Len(resolvedStyles) = 3

\* C14: computeLabelGeometry produces exactly one label per slice geometry, with labelId
\* '<sliceId>-label-0', and a leader line for a slice if and only if the label's effective
\* anchor mode (the label override's anchorMode if present, otherwise
\* config.labelAnchorMode) is 'outside'; the number of leader lines equals the number of
\* labels whose anchorMode is 'outside'.
C14_OneLabelPerSliceLeaderIffOutside ==
    GeometryDone =>
        LET slices == geometryState.slices
            labels == geometryState.labels
            lines == geometryState.leaderLines
            labelIdOf(sliceId) == sliceId \o <<"-", "l", "a", "b", "e", "l", "-", "0">>
            modeOf(sliceId) ==
                LET o == MapGetOpt(overrides.labels, labelIdOf(sliceId))
                IN  IF "anchorMode" \in DOMAIN o THEN o["anchorMode"]
                    ELSE geometryConfig.labelAnchorMode
        IN  /\ Len(labels) = Len(slices)
            /\ \A i \in 1..Len(slices) :
                  /\ labels[i].sliceId = slices[i].k
                  /\ labels[i].labelId = labelIdOf(slices[i].k)
                  /\ labels[i].anchorMode = modeOf(slices[i].k)
                  /\ (\E j \in 1..Len(lines) : lines[j].sliceId = slices[i].k)
                        <=> modeOf(slices[i].k) = "outside"
                  /\ Cardinality({j \in 1..Len(lines) : lines[j].sliceId = slices[i].k}) <= 1
            /\ Len(lines) = Cardinality({i \in 1..Len(labels) : labels[i].anchorMode = "outside"})

\* C14 witness: under a config whose anchor mode is not 'outside', one label is moved
\* outside by its override and gets the only leader line, another label gets none
C14_Witness ==
    /\ stage = "geometry"
    /\ geometryConfig.labelAnchorMode # "outside"
    /\ Len(geometryState.labels) >= 2
    /\ Len(geometryState.leaderLines) = 1

C16_OptionalCenterAndAnnotationRoot ==
    SceneDone =>
        LET kids == sceneGraph.root.children
            centers == SelectSeq(kids, LAMBDA n : n.type = "CENTER_CONTAINER")
            annoRoots == SelectSeq(kids, LAMBDA n : n.type = "ANNOTATION_ROOT")
            annos == MapValues(overrides.annotations)
        IN  /\ Len(centers) = IF FLess(Zero, geometryConfig.innerRadius) THEN 1 ELSE 0
            /\ \A i \in 1..Len(centers) :
                  /\ centers[i].id = CenterContainerId
                  /\ Len(centers[i].children) = 1
                  /\ centers[i].children[1].type = "CENTER_CONTENT"
                  /\ centers[i].children[1].id = CenterContentId
                  /\ centers[i].children[1].parentId = CenterContainerId
                  /\ centers[i].children[1].children = <<>>
            /\ Len(annoRoots) = IF Len(annos) >= 1 THEN 1 ELSE 0
            /\ \A i \in 1..Len(annoRoots) :
                  /\ annoRoots[i].id = AnnotationsLayerId
                  /\ Len(annoRoots[i].children) = Len(annos)
                  /\ \A j \in 1..Len(annos) :
                        /\ annoRoots[i].children[j].id = annos[j].id
                        /\ annoRoots[i].children[j].type = annos[j].type
                        /\ annoRoots[i].children[j].parentId = AnnotationsLayerId
                        /\ annoRoots[i].children[j].children = <<>>

\* C16 witness: a donut with two annotations of different types
C16_Witness ==
    /\ stage = "scene"
    /\ FLess(Zero, geometryConfig.innerRadius)
    /\ Len(overrides.annotations) = 2
    /\ overrides.annotations[1].v.type # overrides.annotations[2].v.type
    /\ Len(sceneGraph.root.children) = 4

\* C17: for every node whose id has an entry in theme.nodeTransforms, resolveSceneGraph sets
\* the node's transform so that each of x, y, scale, rotate equals the override's value when
\* the override sets it and the node's base value otherwise, where a node with no base
\* transform has base x=0, y=0, scale=1, rotate=0; every node whose id has no entry keeps
\* its base transform unchanged.
C17_TransformOverrideMerged ==
    SceneDone =>
        LET fields == {"x", "y", "scale", "rotate"}
            RECURSIVE merged(_, _)
            merged(b, r) ==
                /\ r.id = b.id
                /\ Len(r.children) = Len(b.children)
                /\ IF MapHas(theme.nodeTransforms, b.id)
                   THEN LET o == MapGet(theme.nodeTransforms, b.id)
                            base == IF DOMAIN b.transform = {}
                                    THEN [x |-> Zero, y |-> Zero, scale |-> Num(1), rotate |-> Zero]
                                    ELSE b.transform
                        IN  \A f \in fields :
                               IF f \in DOMAIN o
                               THEN f \in DOMAIN r.transform /\ r.transform[f] = o[f]
                               ELSE IF f \in DOMAIN base
                               THEN f \in DOMAIN r.transform /\ r.transform[f] = base[f]
                               ELSE f \notin DOMAIN r.transform
                   ELSE DOMAIN r.transform = DOMAIN b.transform
                        /\ \A f \in DOMAIN b.transform : r.transform[f] = b.transform[f]
                /\ \A i \in 1..Len(b.children) : merged(b.children[i], r.children[i])
            RECURSIVE treeNodes(_)
            treeNodes(n) == {n} \cup UNION {treeNodes(n.children[i]) : i \in 1..Len(n.children)}
        IN  /\ merged(buildPieSceneGraph(geometryState), sceneGraph.root)
            /\ \A i \in 1..Len(sceneGraph.nodes) :
                  sceneGraph.nodes[i].v \in treeNodes(sceneGraph.root)

\* C17 witness: the root, whose base transform has x and y only, gets the override's scale,
\* and a slice group without a base transform gets the override's x and rotate over the
\* defaults y=0 and scale=1
C17_Witness ==
    /\ stage = "scene"
    /\ DOMAIN sceneGraph.root.transform = {"x", "y", "scale"}
    /\ sceneGraph.root.transform["scale"] = Num(2)
    /\ MapHas(sceneGraph.nodes, SliceABId \o GroupSuffix)
    /\ MapGet(sceneGraph.nodes, SliceABId \o GroupSuffix).transform
          = [x |-> Num(7), y |-> Zero, scale |-> Num(1), rotate |-> Num(90)]

\* C18: aggregation never fails: each group's value is computed with the method sum, avg,
\* min, max or count as selected, any other method name is treated as sum, and a row whose
\* value field is missing, null or non-numeric contributes 0 to its group.
C18_AggregationNeverFails ==
    /\ stage # "error"
    /\ stage = "data" =>
          \A i \in 1..Len(processedData.slices) :
              LET idx == processedData.slices[i].originalRowIndices
                  contribution(row) == IF row.val.k = "num" THEN Num(row.val.n) ELSE Zero
                  vals == [j \in 1..Len(idx) |-> contribution(rows[idx[j] + 1])]
                  expected ==
                      CASE aggregation = "avg" -> FDiv(FSum(vals), Num(Len(vals)))
                        [] aggregation = "min" -> FMin(vals)
                        [] aggregation = "max" -> FMax(vals)
                        [] aggregation = "count" -> Num(Len(vals))
                        [] OTHER -> FSum(vals)
              IN  processedData.slices[i].rawValue = expected

\* C19: map/record conversion is a lossless round trip: for every string-keyed map m,
\* recordToMap(mapToRecord(m)) has exactly the same keys as m with the same value for each
\* key, and for every plain record r, mapToRecord(recordToMap(r)) equals r; an undefined
\* argument converts to the empty record / empty map.
C19_ConversionRoundTrip ==
    /\ (Len(conv) >= 3 /\ conv[1].t = "map") =>
          /\ conv[3].t = "map"
          /\ SeqToSet(MapKeys(conv[3].entries)) = SeqToSet(MapKeys(conv[1].entries))
          /\ \A i \in 1..Len(conv[1].entries) :
                /\ MapHas(conv[3].entries, conv[1].entries[i].k)
                /\ MapGet(conv[3].entries, conv[1].entries[i].k) = conv[1].entries[i].v
    /\ (Len(conv) >= 3 /\ conv[1].t = "object") => conv[3] = conv[1]
    /\ (Len(conv) >= 2 /\ conv[1].t = "undefined") =>
          \/ conv[2] = EmptyObject
          \/ conv[2] = JsMap(EmptyMap)

\* C20: malformed input is rejected before it reaches the pipeline and never partway: when
\* loadBoardState is given a state that fails BoardStateSchema validation, none of rawData,
\* geometryConfig, overrides and theme is changed; all four are replaced only after
\* validation of the whole state has succeeded (and then all four hold the loaded values).
C20_InvalidBoardStateChangesNothing ==
    [][/\ ~BoardStateSchemaAccepts(boardState') =>
              /\ rows' = rows
              /\ aggregation' = aggregation
              /\ geometryConfig' = geometryConfig
              /\ overrides' = overrides
              /\ theme' = theme
       /\ (boardState' # boardState /\ BoardStateSchemaAccepts(boardState')) =>
              /\ rows' = boardState'.rawData.data
              /\ geometryConfig' = boardState'.geometryConfig
              /\ MapKeys(overrides'.slices) = MapKeys(boardState'.overrides.slices.own)
              /\ MapKeys(overrides'.labels) = MapKeys(boardState'.overrides.labels.own)
              /\ MapKeys(overrides'.annotations) = MapKeys(boardState'.overrides.annotations.own)
              /\ theme'.primaryColors = boardState'.theme.primaryColors
              /\ MapKeys(theme'.nodeOverrides) = MapKeys(boardState'.theme.nodeOverrides.own)
              /\ MapKeys(theme'.nodeTransforms) = MapKeys(boardState'.theme.nodeTransforms.own)]_vars

\* C20 witness: after a successful load a state is offered whose chart data and geometry
\* config are valid and differ from the ones in use but whose overrides fail validation;
\* the engine still holds the values loaded earlier
C20_Witness ==
    /\ stage = "stale"
    /\ HasAll(boardState, {"rawData", "geometryConfig", "overrides", "theme"})
    /\ ~BoardStateSchemaAccepts(boardState)
    /\ ChartDataSchemaAccepts(boardState.rawData)
    /\ GeometryConfigSchemaAccepts(boardState.geometryConfig)
    /\ ~GeometryOverridesSchemaAccepts(boardState.overrides)
    /\ boardState.rawData.data # rows
    /\ boardState.geometryConfig # geometryConfig
    /\ overrides.annotations # EmptyMap

\* C21: for every dataset accepted by the chart data schema (rows whose cells are strings,
\* numbers or null, aggregated with one of the five declared methods), every slice's
\* percentage returned by processPieData lies in the range 0 to 100 inclusive.
C21_PercentagesWithin0And100 ==
    (stage = "data" /\ aggregation \in {"sum", "avg", "min", "max", "count"}) =>
        \A i \in 1..Len(processedData.slices) :
            /\ FLeq(Zero, processedData.slices[i].percentage)
            /\ FLeq(processedData.slices[i].percentage, Hundred)

\* C22: a theme override that refers to an id with no scene node produces nothing in the
\* output: the key set of the resolved-style map equals the key set of the scene graph's
\* flat lookup map, and a style or transform override keyed by an id that no node of the
\* built tree carries adds no node and no style entry.
C22_AbsentOverrideTargetsIgnored ==
    StylesDone =>
        LET RECURSIVE treeIds(_)
            treeIds(n) == {n.id} \cup UNION {treeIds(n.children[i]) : i \in 1..Len(n.children)}
            built == treeIds(buildPieSceneGraph(geometryState))
            named == SeqToSet(MapKeys(theme.nodeOverrides)) \cup SeqToSet(MapKeys(theme.nodeTransforms))
        IN  /\ SeqToSet(MapKeys(resolvedStyles)) = SeqToSet(MapKeys(sceneGraph.nodes))
            /\ Len(resolvedStyles) = Len(sceneGraph.nodes)
            /\ SeqToSet(MapKeys(sceneGraph.nodes)) = built
            /\ \A id \in named \ built :
                  ~MapHas(sceneGraph.nodes, id) /\ ~MapHas(resolvedStyles, id)

\* C22 witness: styles are resolved under a theme whose style overrides and transform
\* overrides both name an id that no node carries, next to ids of existing nodes
C22_Witness ==
    /\ stage = "styles"
    /\ MapHas(theme.nodeOverrides, GoneId)
    /\ MapHas(theme.nodeTransforms, GoneId)
    /\ MapHas(theme.nodeOverrides, SliceABId \o ArcSuffix)
    /\ MapHas(resolvedStyles, SliceABId \o ArcSuffix)
    /\ ~MapHas(resolvedStyles, GoneId)

\* C23: when the padded span is positive, createArcPath emits the wedge form (move to the
\* slice centre, line to the outer start point, exactly one arc to the outer end point,
\* close) when the inner radius is 0 and the ring form (move to outer start, arc along the
\* outer radius, line inward, arc back along the inner radius, close) when the inner radius
\* is positive, the large-arc flag being 1 exactly when the padded span exceeds pi; with
\* inner radius 0 and pad angle 0 a single 100% slice over a full-circle range yields the
\* wedge form with exactly one arc command whose large-arc flag is 1.
C23_WedgeAndRingForms ==
    GeometryDone =>
        \A i \in 1..Len(geometryState.slices) :
            LET g == geometryState.slices[i].v
                pad == geometryState.config.padAngle
                from == FAdd(g.startAngle, FDiv(pad, Num(2)))
                to == FSub(g.endAngle, FDiv(pad, Num(2)))
                span == FSub(to, from)
                flag == IF FLess(Num(1), span) THEN "1" ELSE "0"
                c == PtAdd(g.center, g.explodeOffset)
                outerStart == polarToCartesian(c, g.outerRadius, from)
                outerEnd == polarToCartesian(c, g.outerRadius, to)
                innerEnd == polarToCartesian(c, g.innerRadius, to)
                innerStart == polarToCartesian(c, g.innerRadius, from)
                path == g.pathData
                arcs == {j \in 1..Len(path) : path[j].c = "A"}
            IN  /\ (FLess(Zero, span) /\ g.innerRadius = Zero) =>
                      /\ path = << [c |-> "M", p |-> c],
                                   [c |-> "L", p |-> outerStart],
                                   [c |-> "A", r |-> g.outerRadius, large |-> flag,
                                    sweep |-> "1", p |-> outerEnd],
                                   [c |-> "Z"] >>
                      /\ Cardinality(arcs) = 1
                /\ (FLess(Zero, span) /\ FLess(Zero, g.innerRadius)) =>
                      path = << [c |-> "M", p |-> outerStart],
                                [c |-> "A", r |-> g.outerRadius, large |-> flag,
                                 sweep |-> "1", p |-> outerEnd],
                                [c |-> "L", p |-> innerEnd],
                                [c |-> "A", r |-> g.innerRadius, large |-> flag,
                                 sweep |-> "0", p |-> innerStart],
                                [c |-> "Z"] >>
                /\ ( /\ Len(geometryState.slices) = 1
                     /\ g.innerRadius = Zero
                     /\ pad = Zero
                     /\ FSub(g.endAngle, g.startAngle) = Num(2) ) =>
                      /\ Len(path) = 4
                      /\ Cardinality(arcs) = 1
                      /\ \A j \in arcs : path[j].large = "1"

\* C23 witness: the geometry of a single 100% slice over the full circle, inner radius 0
\* and pad angle 0, whose path is a wedge with one arc
C23_Witness ==
    /\ stage = "geometry"
    /\ Len(processedData.slices) = 1
    /\ processedData.slices[1].percentage = Hundred
    /\ geometryConfig.padAngle = Zero
    /\ Len(geometryState.slices) = 1
    /\ geometryState.slices[1].v.innerRadius = Zero
    /\ FSub(geometryState.slices[1].v.endAngle, geometryState.slices[1].v.startAngle) = Num(2)
    /\ Len(geometryState.slices[1].v.pathData) = 4

\* C24: in useChartEngine, after any sequence of input changes (new raw data,
\* setGeometryConfig, setOverrides, setTheme, updateSliceOverride, updateLabelOverride,
\* updateNodeStyle, updateNodeTransform, addAnnotation, removeAnnotation), once
\* recomputation has run, the exposed processedData, geometryState, sceneGraph and
\* resolvedStyles equal the result of running the stages in order on the current data,
\* config, overrides and theme (each stage run at some reading of the clock up to now); no
\* stage's output is derived from an outdated output of its predecessor.
C24_ExposedOutputsAreCurrent ==
    (stage = "styles" /\ changed = {}) =>
        /\ processedData = processPieData(rows, aggregation)
        /\ \E t \in 0..now :
              geometryState = resolveGeometry(processedData, geometryConfig, overrides, t)
        /\ \E t \in 0..now :
              sceneGraph = resolveSceneGraph(geometryState, theme, t)
        /\ resolvedStyles = resolveAllStyles(sceneGraph, theme)

\* C24 witness: after a render, only the theme was changed (a transform for the root) and
\* the hook rendered again: the geometry state is the memoized one of the earlier render,
\* the scene graph is newer and carries the transform
C24_Witness ==
    /\ stage = "styles"
    /\ changed = {}
    /\ "op" \in DOMAIN call
    /\ call.op = "updateNodeTransform"
    /\ geometryState.lastUpdated < sceneGraph.lastUpdated
    /\ "scale" \in DOMAIN sceneGraph.root.transform
    /\ sceneGraph.root.transform["scale"] = Num(2)

\* C25: each engine update operation returns a new map instead of mutating the previous
\* one: updateSliceOverride(id, u) (and likewise updateLabelOverride, updateNodeStyle,
\* updateNodeTransform) yields a state whose entry for id is the previous entry with the
\* fields of u merged over it, whose entries for all other ids are unchanged and whose
\* other maps are unchanged, while the previously held map (the one the last render was
\* given, still held by the geometry state) has its old contents; addAnnotation(a) sets
\* only the entry a.id and removeAnnotation(id) removes only the entry id.
C25_UpdatesMergeIntoNewMap ==
    [][LET op == call'.op
           mergedAt(old, new, id, u) ==
               /\ MapHas(new, id)
               /\ LET before == MapGetOpt(old, id)
                      after == MapGet(new, id)
                  IN  /\ DOMAIN after = (DOMAIN before) \cup (DOMAIN u)
                      /\ \A f \in DOMAIN after :
                            after[f] = IF f \in DOMAIN u THEN u[f] ELSE before[f]
           othersKept(old, new, id) ==
               \A key \in (SeqToSet(MapKeys(old)) \cup SeqToSet(MapKeys(new))) \ {id} :
                   /\ MapHas(old, key) /\ MapHas(new, key)
                   /\ MapGet(new, key) = MapGet(old, key)
           heldValuesKept ==
               /\ geometryState' = geometryState
               /\ processedData' = processedData
               /\ sceneGraph' = sceneGraph
               /\ resolvedStyles' = resolvedStyles
       IN  now' # now =>
              /\ op = "updateSliceOverride" =>
                    /\ mergedAt(overrides.slices, overrides'.slices, call'.id, call'.update)
                    /\ othersKept(overrides.slices, overrides'.slices, call'.id)
                    /\ overrides'.labels = overrides.labels
                    /\ overrides'.annotations = overrides.annotations
                    /\ theme' = theme
                    /\ heldValuesKept
              /\ op = "updateLabelOverride" =>
                    /\ mergedAt(overrides.labels, overrides'.labels, call'.id, call'.update)
                    /\ othersKept(overrides.labels, overrides'.labels, call'.id)
                    /\ overrides'.slices = overrides.slices
                    /\ overrides'.annotations = overrides.annotations
                    /\ theme' = theme
                    /\ heldValuesKept
              /\ op = "updateNodeStyle" =>
                    /\ mergedAt(theme.nodeOverrides, theme'.nodeOverrides, call'.id, call'.update)
                    /\ othersKept(theme.nodeOverrides, theme'.nodeOverrides, call'.id)
                    /\ theme'.nodeTransforms = theme.nodeTransforms
                    /\ theme'.primaryColors = theme.primaryColors
                    /\ overrides' = overrides
                    /\ heldValuesKept
              /\ op = "updateNodeTransform" =>
                    /\ mergedAt(theme.nodeTransforms, theme'.nodeTransforms, call'.id, call'.update)
                    /\ othersKept(theme.nodeTransforms, theme'.nodeTransforms, call'.id)
                    /\ theme'.nodeOverrides = theme.nodeOverrides
                    /\ theme'.primaryColors = theme.primaryColors
                    /\ overrides' = overrides
                    /\ heldValuesKept
              /\ op = "addAnnotation" =>
                    /\ MapHas(overrides'.annotations, call'.id)
                    /\ MapGet(overrides'.annotations, call'.id) = call'.update
                    /\ othersKept(overrides.annotations, overrides'.annotations, call'.id)
                    /\ overrides'.slices = overrides.slices
                    /\ overrides'.labels = overrides.labels
                    /\ theme' = theme
                    /\ heldValuesKept
              /\ op = "removeAnnotation" =>
                    /\ ~MapHas(overrides'.annotations, call'.id)
                    /\ othersKept(overrides.annotations, overrides'.annotations, call'.id)
                    /\ overrides'.slices = overrides.slices
                    /\ overrides'.labels = overrides.labels
                    /\ theme' = theme
                    /\ heldValuesKept]_vars

\* C25 witness: updateSliceOverride(slice-c, {innerRadius: 20}) was called on a map that
\* held an entry for slice-c with other fields and an entry for another slice: the entry
\* keeps its explodeAmount, the other entry is as before, and the map held by the geometry
\* state of the last render still has the old entry
C25_Witness ==
    /\ stage = "stale"
    /\ "op" \in DOMAIN call
    /\ call.op = "updateSliceOverride"
    /\ call.update = [innerRadius |-> Num(20)]
    /\ MapHas(overrides.slices, SliceABId)
    /\ MapHas(overrides.slices, SliceCId)
    /\ MapGet(overrides.slices, SliceCId) = [explodeAmount |-> Num(5), innerRadius |-> Num(20)]
    /\ MapHas(geometryState.overrides.slices, SliceCId)
    /\ MapGet(geometryState.overrides.slices, SliceCId) = [innerRadius |-> Num(20)]

\* C26: board-state persistence is a lossless round trip: exporting the current state
\* (mapToRecord on each override and theme map, then BoardStateSchema.parse) and restoring
\* the exported value with loadBoardState yields slice-override, label-override,
\* annotation, node-style-override and node-transform maps equal to the exported ones, for
\* every field that those override records may carry in the engine's types.
C26_BoardStateRoundTrip ==
    [][( /\ "state" \in DOMAIN call
         /\ call'.op = "loadBoardState"
         /\ boardState' = call.state ) =>
            /\ overrides'.slices = overrides.slices
            /\ overrides'.labels = overrides.labels
            /\ overrides'.annotations = overrides.annotations
            /\ theme'.nodeOverrides = theme.nodeOverrides
            /\ theme'.nodeTransforms = theme.nodeTransforms]_vars

\* C27: the validation boundary constrains every radius to be >= 0: BoardStateSchema
\* rejects any board state in which the config's inner or outer radius, a per-slice
\* override's innerRadius or outerRadius, or an annotation's radius is negative, so no
\* negative radius can enter the geometry stage from a validated state.
C27_NegativeRadiiRejected ==
    LET nonNegative(rec, f) == f \in DOMAIN rec => FLeq(Zero, rec[f])
    IN  /\ BoardStateSchemaAccepts(boardState) =>
              /\ FLeq(Zero, boardState.geometryConfig.innerRadius)
              /\ FLeq(Zero, boardState.geometryConfig.outerRadius)
              /\ \A i \in 1..Len(boardState.overrides.slices.own) :
                    /\ nonNegative(boardState.overrides.slices.own[i].v, "innerRadius")
                    /\ nonNegative(boardState.overrides.slices.own[i].v, "outerRadius")
              /\ \A i \in 1..Len(boardState.overrides.annotations.own) :
                    nonNegative(boardState.overrides.annotations.own[i].v, "radius")
        /\ FLeq(Zero, geometryConfig.innerRadius)
        /\ FLeq(Zero, geometryConfig.outerRadius)
        /\ \A i \in 1..Len(overrides.slices) :
              /\ nonNegative(overrides.slices[i].v, "innerRadius")
              /\ nonNegative(overrides.slices[i].v, "outerRadius")
        /\ \A i \in 1..Len(overrides.annotations) :
              nonNegative(overrides.annotations[i].v, "radius")

\* C28: slice ids are unique within one pipeline run: distinct category labels of a dataset
\* yield distinct sliceIds, so computePieGeometry's slices map holds exactly one
\* SliceGeometry per processed slice and every processed slice has its own arc,
\* percentage-label and label node in the scene graph.
C28_SliceIdsUnique ==
    LET sl == processedData.slices
        ofType(t) == SelectSeq(MapValues(sceneGraph.nodes), LAMBDA n : n.type = t)
    IN  /\ stage \in {"data", "geometry", "scene", "styles"} =>
              \A i, j \in 1..Len(sl) :
                  sl[i].label # sl[j].label => sl[i].sliceId # sl[j].sliceId
        /\ GeometryDone => Len(geometryState.slices) = Len(sl)
        /\ SceneDone =>
              /\ Len(ofType("ARC")) = Len(sl)
              /\ Len(ofType("PERCENTAGE_LABEL")) = Len(sl)
              /\ Len(ofType("LABEL")) = Len(sl)

\* C29: all node ids in a scene graph are pairwise distinct, for any slices and any
\* annotation override map: the number of entries in the flat lookup map equals the
\* number of nodes in the tree, and looking up a node's id in the map returns that node.
C29_NodeIdsUnique ==
    SceneDone =>
        LET RECURSIVE flatten(_)
            RECURSIVE flattenAll(_, _)
            flatten(n) == <<n>> \o flattenAll(n.children, 1)
            flattenAll(children, i) ==
                IF i > Len(children) THEN <<>>
                ELSE flatten(children[i]) \o flattenAll(children, i + 1)
            tree == flatten(sceneGraph.root)
        IN  /\ \A i, j \in 1..Len(tree) : i # j => tree[i].id # tree[j].id
            /\ Len(sceneGraph.nodes) = Len(tree)
            /\ \A i \in 1..Len(tree) :
                  /\ MapHas(sceneGraph.nodes, tree[i].id)
                  /\ MapGet(sceneGraph.nodes, tree[i].id) = tree[i]

\* C30: the originalRowIndices of the slices returned by processPieData partition the input
\* rows: every row index 0..rows-1 occurs in exactly one slice's originalRowIndices (rows
\* with a missing or null category fall into the slice labelled 'Unknown'), indices are in
\* ascending order within a slice, and total equals the sum of the slices' rawValue.
C30_RowIndicesPartitionRows ==
    stage = "data" =>
        LET sl == processedData.slices
            unknown == <<"U", "n", "k", "n", "o", "w", "n">>
            holders(r) == {i \in 1..Len(sl) :
                              \E j \in 1..Len(sl[i].originalRowIndices) :
                                  sl[i].originalRowIndices[j] = r}
        IN  /\ \A r \in 0..(Len(rows) - 1) :
                  /\ Cardinality(holders(r)) = 1
                  /\ \A i \in holders(r) :
                        /\ rows[r + 1].cat.k = "str" => sl[i].label = rows[r + 1].cat.s
                        /\ rows[r + 1].cat.k # "str" => sl[i].label = unknown
            /\ \A i \in 1..Len(sl) :
                  LET idx == sl[i].originalRowIndices
                  IN  /\ Len(idx) >= 1
                      /\ \A j \in 1..Len(idx) : idx[j] \in 0..(Len(rows) - 1)
                      /\ \A j \in 1..(Len(idx) - 1) : idx[j] < idx[j + 1]
            /\ processedData.total = FSum([i \in 1..Len(sl) |-> sl[i].rawValue])

\* C30 witness: three rows, one of them with a null category, are grouped into two slices;
\* the slice labelled 'Unknown' holds the null-category row and another slice holds two rows
C30_Witness ==
    /\ stage = "data"
    /\ Len(rows) = 3
    /\ \E r \in 1..Len(rows) : rows[r].cat.k = "null"
    /\ Len(processedData.slices) = 2
    /\ \E i \in 1..Len(processedData.slices) :
          /\ processedData.slices[i].label = <<"U", "n", "k", "n", "o", "w", "n">>
          /\ Len(processedData.slices[i].originalRowIndices) = 1
    /\ \E i \in 1..Len(processedData.slices) :
          processedData.slices[i].originalRowIndices = <<0, 2>>

====
